---- MODULE Spec2Model ----
(***************************************************************************)
(* A model of pyguard: the suppression engine (ignores.py), the lint      *)
(* orchestrator (runner.py), the diagnostic collection (diagnostics.py)   *)
(* and the control flow of the fixers (fixers/*.py).                      *)
(***************************************************************************)
EXTENDS Integers, Sequences, FiniteSets, TLC

(***************************************************************************)
(* Bounds of the model.                                                    *)
(***************************************************************************)
\* the longest list of rule diagnostics handed to apply_ignores
MaxDiags == 1
\* the largest number of pragma comments written into one file
MaxPragmas == 2

(***************************************************************************)
(* constants.py                                                            *)
(***************************************************************************)
ERROR == "error"
WARN == "warn"
OFF == "off"

IGN001_CODE == "IGN001"
IGN002_CODE == "IGN002"
IGN003_CODE == "IGN003"
SYNTAX_ERROR_CODE == "SYN001"

DEFAULT_SEVERITIES ==
    [c \in {"TYP001", "TYP002", "TYP003", "TYP010", "KW001", "RET001",
            "IMP001", "EXP001", "EXP002"} |->
        CASE c \in {"TYP001", "TYP002", "TYP010", "IMP001"} -> ERROR
          [] c \in {"TYP003", "KW001", "RET001"} -> WARN
          [] OTHER -> OFF]

\* Python's None, for an optional string
None == "None"
\* an optional integer is a list of at most one integer: None is the empty list
NoInt == << >>

\* the rule codes whose diagnostics the model feeds to the suppression engine
DiagCodes == {"TYP001", "TYP003"}

(***************************************************************************)
(* Source files.  A line of source text is modelled by what the two pragma *)
(* regular expressions extract from it: whether non-blank text stands      *)
(* before the comment, which pattern matches, the raw comma-separated code *)
(* list (group 1) and the raw reason (group 2, None when the optional      *)
(* group did not take part in the match).                                  *)
(* The tree is the list of ast.stmt nodes in ast.walk order.               *)
(***************************************************************************)
Stmt(lineno, end_lineno, decorators) ==
    [lineno |-> lineno, end_lineno |-> end_lineno, decorators |-> decorators]

\* Sample sources (line 1 is a comment line in each):
\*   func    "#\ndef add(x, y):\n    z = x + y\n    return z\n"
\*   deco    "#\n@dec\ndef f(x):\n    return x\n"
\*   ifelse  "#\nif c: x = 1\nelse:\n    y = 2\n"
\*   gap     "#\n\nx = 1\ny = 2\n"
Shapes ==
    { [name |-> "func", nlines |-> 4, code |-> {2, 3, 4},
       tree |-> << Stmt(2, 4, {}), Stmt(3, 3, {}), Stmt(4, 4, {}) >>],
      [name |-> "deco", nlines |-> 4, code |-> {2, 3, 4},
       tree |-> << Stmt(3, 4, {2}), Stmt(4, 4, {}) >>],
      [name |-> "ifelse", nlines |-> 4, code |-> {2, 3, 4},
       tree |-> << Stmt(2, 4, {}), Stmt(2, 2, {}), Stmt(4, 4, {}) >>],
      [name |-> "gap", nlines |-> 4, code |-> {3, 4},
       tree |-> << Stmt(3, 3, {}), Stmt(4, 4, {}) >>] }

\* the pragma comments the model writes: form, raw code list, raw reason
\*   # pyguard: ignore[TYP001, IGN001]
\*   # pyguard: ignore[typ001, TYP003] because: legacy
\*   # pyguard: ignore-file[TYP003, IGN002,] because:<blanks>
\*   # pyguard: ignore-file[TYP001] because: legacy
PragmaTexts ==
    { [form |-> "ignore", codes |-> << "TYP001", " IGN001" >>, reason |-> None],
      [form |-> "ignore", codes |-> << "typ001", " TYP003" >>, reason |-> "legacy"],
      [form |-> "ignore-file", codes |-> << "TYP003", " IGN002", "" >>,
       reason |-> "  "],
      [form |-> "ignore-file", codes |-> << "TYP001" >>, reason |-> "legacy"] }

NoPragma == [form |-> "none", codes |-> << >>, reason |-> None]

\* the source lines of a sample source with pragma comments at the lines of p
SourceLines(shape, p) ==
    [i \in 1..shape.nlines |->
        LET c == IF i \in DOMAIN p THEN p[i] ELSE NoPragma
        IN [code |-> i \in shape.code, form |-> c.form,
            codes |-> c.codes, reason |-> c.reason]]

\* every placement of at most MaxPragmas pragma comments in a sample source
Placements(shape) ==
    UNION { [L -> PragmaTexts] :
            L \in { S \in SUBSET (1..shape.nlines) : Cardinality(S) <= MaxPragmas } }

(***************************************************************************)
(* diagnostics.py                                                          *)
(***************************************************************************)
Diagnostic(file, line, column, code, message, severity) ==
    [file |-> file, line |-> line, column |-> column, code |-> code,
     message |-> message, severity |-> severity]

(***************************************************************************)
(* ignores.py                                                              *)
(***************************************************************************)
\* str.strip() on the strings of the model
Strip(s) ==
    CASE s = "  " -> ""
      [] s = " TYP003" -> "TYP003"
      [] s = " IGN001" -> "IGN001"
      [] s = " IGN002" -> "IGN002"
      [] OTHER -> s

\* str.upper() on the strings of the model
Upper(s) ==
    CASE s = "typ001" -> "TYP001"
      [] OTHER -> s

_parse_codes(raw) ==
    { Upper(Strip(raw[i])) : i \in { j \in DOMAIN raw : Strip(raw[j]) # "" } }

_clean_reason(raw) ==
    IF raw = None THEN None
    ELSE IF Strip(raw) # "" THEN Strip(raw) ELSE None

IgnoreDirective(line, codes, reason, is_file_level, is_inline) ==
    [line |-> line, codes |-> codes, reason |-> reason,
     is_file_level |-> is_file_level, is_inline |-> is_inline]

\* the directive of line idx (a one-element list), or the empty list
DirectiveOfLine(source_lines, idx) ==
    LET text == source_lines[idx]
    IN IF text.form = "ignore-file"
       THEN << IgnoreDirective(idx, _parse_codes(text.codes),
                               _clean_reason(text.reason), TRUE, FALSE) >>
       ELSE IF text.form = "ignore"
       THEN << IgnoreDirective(idx, _parse_codes(text.codes),
                               _clean_reason(text.reason), FALSE, text.code) >>
       ELSE << >>

RECURSIVE DirectivesUpTo(_, _)
DirectivesUpTo(source_lines, n) ==
    IF n = 0 THEN << >>
    ELSE DirectivesUpTo(source_lines, n - 1) \o DirectiveOfLine(source_lines, n)

parse_ignore_directives(source_lines) ==
    DirectivesUpTo(source_lines, Len(source_lines))

Min(S) == CHOOSE x \in S : \A y \in S : x <= y

\* the first line of a statement: its first decorator line when decorated
EffectiveStart(node) ==
    IF node.decorators # {} THEN Min(node.decorators) ELSE node.lineno

\* the dict after the first n nodes of the walk: a later node with the same
\* start line overwrites the entry of an earlier one
RECURSIVE RangesUpTo(_, _)
RangesUpTo(tree, n) ==
    IF n = 0 THEN << >>
    ELSE LET ranges == RangesUpTo(tree, n - 1)
             start == EffectiveStart(tree[n])
             end == tree[n].end_lineno
         IN [k \in (DOMAIN ranges) \cup {start} |->
                IF k = start THEN end ELSE ranges[k]]

_collect_statement_ranges(tree) == RangesUpTo(tree, Len(tree))

IsBlock(d) == ~d.is_file_level /\ ~d.is_inline

\* the list of (start, end, codes) of the block directives that stand on the
\* line before a statement's first line
_resolve_block_ranges(directives, tree) ==
    LET block_directives == SelectSeq(directives, IsBlock)
        stmt_ranges == _collect_statement_ranges(tree)
        Resolved(d) == (d.line + 1) \in DOMAIN stmt_ranges
        found == SelectSeq(block_directives, Resolved)
    IN [i \in DOMAIN found |->
           [start |-> found[i].line + 1,
            end |-> stmt_ranges[found[i].line + 1],
            codes |-> found[i].codes]]

\* sorted(codes): the codes of the model in string order
CodeOrder ==
    << "EXP001", "EXP002", "IGN001", "IGN002", "IGN003", "IMP001", "KW001",
       "RET001", "SYN001", "TYP001", "TYP002", "TYP003", "TYP010" >>

SortedCodes(codes) ==
    LET Listed(c) == c \in codes IN SelectSeq(CodeOrder, Listed)

RECURSIVE Flatten(_)
Flatten(lists) ==
    IF lists = << >> THEN << >> ELSE Head(lists) \o Flatten(Tail(lists))

IGN001Message == "Ignore pragma requires a reason"
IGN002Message(code) == "Rule '" \o code \o "' cannot be ignored"
IGN003Message(count, max) ==
    "File has " \o ToString(count) \o " ignore directives, maximum allowed is "
    \o ToString(max)

HasNoReason(d) == d.reason = None


\* a slip: only line-level pragmas are asked for a reason
ReasonViolations_LineLevelOnly(directives, governance, file) ==
    IF governance.require_reason
    THEN LET Missing(d) == d.reason = None /\ ~d.is_file_level
             missing == SelectSeq(directives, Missing)
         IN [i \in DOMAIN missing |->
                Diagnostic(file, missing[i].line, 1, IGN001_CODE,
                           IGN001Message, ERROR)]
    ELSE << >>

\* the IGN001 diagnostics: one per directive without a reason
ReasonViolations(directives, governance, file) ==
    IF governance.require_reason
    THEN LET missing == SelectSeq(directives, HasNoReason)
         IN [i \in DOMAIN missing |->
                Diagnostic(file, missing[i].line, 1, IGN001_CODE,
                           IGN001Message, ERROR)]
    ELSE << >>


\* a slip: one IGN002 per pragma, for the first disallowed code it lists
DisallowViolations_OncePerPragma(directives, governance, file) ==
    Flatten([i \in DOMAIN directives |->
        LET Disallowed(c) == c \in governance.disallow
            listed == SelectSeq(SortedCodes(directives[i].codes), Disallowed)
        IN IF listed = << >> THEN << >>
           ELSE << Diagnostic(file, directives[i].line, 1, IGN002_CODE,
                              IGN002Message(listed[1]), ERROR) >>])

\* the IGN002 diagnostics: per directive, one per disallowed code it lists
DisallowViolations(directives, governance, file) ==
    Flatten([i \in DOMAIN directives |->
        LET Disallowed(c) == c \in governance.disallow
            listed == SelectSeq(SortedCodes(directives[i].codes), Disallowed)
        IN [j \in DOMAIN listed |->
               Diagnostic(file, directives[i].line, 1, IGN002_CODE,
                          IGN002Message(listed[j]), ERROR)]])

\* a slip: the limit itself already counts as exceeded
CountViolations_AtLimit(directives, governance, file) ==
    IF governance.max_per_file # NoInt
       /\ Len(directives) >= governance.max_per_file[1]
    THEN << Diagnostic(file, 1, 1, IGN003_CODE,
                       IGN003Message(Len(directives), governance.max_per_file[1]),
                       ERROR) >>
    ELSE << >>

\* the IGN003 diagnostic: the directive count exceeds max_per_file
CountViolations(directives, governance, file) ==
    IF governance.max_per_file # NoInt
       /\ Len(directives) > governance.max_per_file[1]
    THEN << Diagnostic(file, 1, 1, IGN003_CODE,
                       IGN003Message(Len(directives), governance.max_per_file[1]),
                       ERROR) >>
    ELSE << >>

_check_governance(directives, governance, file) ==
    ReasonViolations(directives, governance, file)
    \o DisallowViolations(directives, governance, file)
    \o CountViolations(directives, governance, file)


\* a slip: a file-level pragma counts only on the first line of the file
FileCodes_FirstLineOnly(directives) ==
    UNION { directives[i].codes :
            i \in { j \in DOMAIN directives :
                      directives[j].is_file_level /\ directives[j].line = 1 } }

\* file_codes: the union of the codes of the file-level directives
FileCodes(directives) ==
    UNION { directives[i].codes :
            i \in { j \in DOMAIN directives : directives[j].is_file_level } }

\* the keys of line_ignores: the lines that carry an inline directive
LineIgnoreKeys(directives) ==
    { directives[j].line :
        j \in { i \in DOMAIN directives :
                  ~directives[i].is_file_level /\ directives[i].is_inline } }


\* a slip: the codes of the inline directives of every line
LineIgnores_AnyLine(directives, line) ==
    UNION { directives[j].codes :
            j \in { i \in DOMAIN directives :
                      ~directives[i].is_file_level /\ directives[i].is_inline } }

\* line_ignores[line]: the union of the codes of the inline directives of the line
LineIgnores(directives, line) ==
    UNION { directives[j].codes :
            j \in { i \in DOMAIN directives :
                      /\ ~directives[i].is_file_level
                      /\ directives[i].is_inline
                      /\ directives[i].line = line } }

InBlockRange(block_ranges, diag) ==
    \E i \in DOMAIN block_ranges :
        /\ block_ranges[i].start <= diag.line
        /\ diag.line <= block_ranges[i].end
        /\ diag.code \in block_ranges[i].codes


\* a slip: the disallow set is not consulted
Keeps_DisallowNotChecked(directives, block_ranges, disallowed, diag) ==
    IF diag.code \in FileCodes(directives) THEN FALSE
    ELSE IF diag.line \in LineIgnoreKeys(directives)
            /\ diag.code \in LineIgnores(directives, diag.line) THEN FALSE
    ELSE IF InBlockRange(block_ranges, diag) THEN FALSE
    ELSE TRUE

\* the body of the filter loop: is diag appended to kept
Keeps(directives, block_ranges, disallowed, diag) ==
    IF diag.code \in disallowed THEN TRUE
    ELSE IF diag.code \in FileCodes(directives) THEN FALSE
    ELSE IF diag.line \in LineIgnoreKeys(directives)
            /\ diag.code \in LineIgnores(directives, diag.line) THEN FALSE
    ELSE IF InBlockRange(block_ranges, diag) THEN FALSE
    ELSE TRUE


\* a slip: the governance violations pass through the filter as well
apply_ignores_FiltersViolations(diags, pr, governance) ==
    LET directives == parse_ignore_directives(pr.source_lines)
        block_ranges == _resolve_block_ranges(directives, pr.tree)
        Kept(diag) == Keeps(directives, block_ranges, governance.disallow, diag)
    IN IF directives = << >> THEN diags
       ELSE SelectSeq(_check_governance(directives, governance, pr.file) \o diags,
                      Kept)

apply_ignores(diags, pr, governance) ==
    LET directives == parse_ignore_directives(pr.source_lines)
        block_ranges == _resolve_block_ranges(directives, pr.tree)
        Kept(diag) == Keeps(directives, block_ranges, governance.disallow, diag)
    IN IF directives = << >> THEN diags
       ELSE _check_governance(directives, governance, pr.file)
            \o SelectSeq(diags, Kept)

(***************************************************************************)
(* rules/registry.py, types.py                                             *)
(***************************************************************************)
\* the registered rules, in registry order
_all_rules ==
    << "TYP001", "TYP002", "TYP003", "TYP010", "KW001", "IMP001", "RET001" >>

\* severities.get(rule_code, Severity.OFF)
get_severity(cfg, rule_code) ==
    IF rule_code \in DOMAIN cfg.severities THEN cfg.severities[rule_code] ELSE OFF

is_rule_enabled(cfg, rule_code) == get_severity(cfg, rule_code) # OFF

get_enabled_rules(cfg) ==
    LET Enabled(code) == is_rule_enabled(cfg, code) IN SelectSeq(_all_rules, Enabled)

(***************************************************************************)
(* State.                                                                  *)
(***************************************************************************)
VARIABLES
    governance,     \* apply_ignores: the IgnoreGovernance argument
    parse_result,   \* apply_ignores: the ParseResult argument
    diagnostics,    \* apply_ignores: the diagnostics argument
    result,         \* apply_ignores: the returned list
    pc,             \* "ready" before the call, "done" after it
    config,         \* lint_paths: the PyGuardConfig argument
    files,          \* lint_paths: the discovered files, in scan order
    file_idx,       \* lint_paths: the position of the loop over files
    collection,     \* lint_paths: the DiagnosticCollection
    rule_checks,    \* the calls of Rule.check made so far: (file, rule code)
    filtered,       \* the files apply_ignores was called on so far
    exit_code,      \* lint_paths: the exit code of the LintResult, once returned
    lint_pc,        \* "loop", "done" (returned) or "raised" (left by an exception)
    input,          \* a fixer: the source string passed in
    fixer,          \* the code of the fixer that was called
    output,         \* a fixer: the string returned
    fix_pc,         \* "ready" before the call, "done" after it, "again" after
                    \* the second call
    heap,           \* the list objects: heap[1] is DiagnosticCollection._diagnostics
    returned,       \* the list object DiagnosticCollection.sorted returned
    added,          \* the diagnostics passed to add and add_all so far, in order
    coll_pc,        \* "open", "sorted" (sorted returned), "cleared" (the caller
                    \* emptied the list it got)
    argv,           \* pyguard fix: the mode options on the command line
    answers,        \* pyguard fix: the lines waiting on standard input
    original,       \* the files of the tree before the command: path -> text
    disk,           \* the files of the tree: path -> text
    cli_mode,       \* the mode the command carried out, "none" before it did
    cli_exit,       \* the exit code of the command, once it ended
    cli_pc,         \* "ready" before the command, "done" after it
    scan_paths,     \* scan_files: the paths argument
    scan_config,    \* scan_files: the include and exclude patterns of the config
    scan_result,    \* scan_files: the returned list
    scan_pc,        \* "ready" before the call, "done" after it
    source_text,    \* parse_file: the string read_text returned
    ast_report,     \* parse_file: what ast.parse did: "tree", or the lineno
                    \* and offset of the SyntaxError it raised
    parse_out,      \* parse_file: the ParseResult returned
    parse_pc,       \* "ready" before the call, "done" after it
    module_tree,    \* Rule.check: the tree of the ParseResult
    rule_config,    \* Rule.check: the options of the rules in the config
    rule_code,      \* the code of the rule whose check was called
    rule_diags,     \* Rule.check: the diagnostics returned
    rule_pc         \* "ready" before the call, "done" after it

ignore_vars == << governance, parse_result, diagnostics, result, pc >>
lint_vars ==
    << config, files, file_idx, collection, rule_checks, filtered, exit_code,
       lint_pc >>
fix_vars == << input, fixer, output, fix_pc >>
coll_vars == << heap, returned, added, coll_pc >>
cli_vars == << argv, answers, original, disk, cli_mode, cli_exit, cli_pc >>
scan_vars == << scan_paths, scan_config, scan_result, scan_pc >>
parser_vars == << source_text, ast_report, parse_out, parse_pc >>
rule_vars == << module_tree, rule_config, rule_code, rule_diags, rule_pc >>
late_vars == << parser_vars, rule_vars >>
rest_vars == << coll_vars, cli_vars, scan_vars, late_vars >>
vars == << ignore_vars, lint_vars, fix_vars, rest_vars >>

CollIdle ==
    /\ heap = << << >> >>
    /\ returned = 0
    /\ added = << >>
    /\ coll_pc = "idle"

CliIdle ==
    /\ argv = {}
    /\ answers = << >>
    /\ original = << >>
    /\ disk = << >>
    /\ cli_mode = "none"
    /\ cli_exit = NoInt
    /\ cli_pc = "idle"

ScanIdle ==
    /\ scan_paths = << >>
    /\ scan_config = [include |-> << >>, exclude |-> << >>]
    /\ scan_result = << >>
    /\ scan_pc = "idle"

ParserIdle ==
    /\ source_text = << >>
    /\ ast_report = [raises |-> FALSE, lineno |-> NoInt, offset |-> NoInt]
    /\ parse_out = << >>
    /\ parse_pc = "idle"

RulesIdle ==
    /\ module_tree = << >>
    /\ rule_config = << >>
    /\ rule_code = "none"
    /\ rule_diags = << >>
    /\ rule_pc = "idle"

LateIdle == ParserIdle /\ RulesIdle

RestIdle == CollIdle /\ CliIdle /\ ScanIdle /\ LateIdle

Governances ==
    [require_reason : BOOLEAN,
     disallow : { {}, {"TYP001"}, {"TYP001", "TYP003"} },
     max_per_file : {NoInt, << 1 >>}]
    \cup [require_reason : BOOLEAN, disallow : { {} }, max_per_file : {<< 0 >>}]

ParseResults ==
    UNION { { [file |-> "a.py", tree |-> shape.tree,
               source_lines |-> SourceLines(shape, p), shape |-> shape.name] :
              p \in Placements(shape) } : shape \in Shapes }

\* what a rule reports: a code line of the file, at the default severity
RuleDiagnostics(pr) ==
    { Diagnostic(pr.file, l, 1, c, "rule", DEFAULT_SEVERITIES[c]) :
        l \in { i \in DOMAIN pr.source_lines : pr.source_lines[i].code },
        c \in DiagCodes }

\* the position of a rule code in the registry
RuleIndex(code) == CHOOSE i \in DOMAIN _all_rules : _all_rules[i] = code

\* the lists of rule diagnostics the runner hands over: rule after rule, and
\* line after line within a rule
DiagnosticLists(pr) ==
    { ds \in UNION { [1..n -> RuleDiagnostics(pr)] : n \in 0..MaxDiags } :
        \A i \in 1..(Len(ds) - 1) :
            \/ RuleIndex(ds[i].code) < RuleIndex(ds[i + 1].code)
            \/ /\ ds[i].code = ds[i + 1].code
               /\ ds[i].line < ds[i + 1].line }

\* the default configuration: PyGuardConfig()
DefaultConfig ==
    [severities |-> DEFAULT_SEVERITIES,
     ignores |-> [require_reason |-> TRUE, disallow |-> {}, max_per_file |-> NoInt]]

\* lint_paths is not running
LintIdle ==
    /\ config = DefaultConfig
    /\ files = << >>
    /\ file_idx = 1
    /\ collection = << >>
    /\ rule_checks = << >>
    /\ filtered = << >>
    /\ exit_code = NoInt
    /\ lint_pc = "idle"

\* no fixer is running
FixIdle ==
    /\ input = << >>
    /\ fixer = None
    /\ output = << >>
    /\ fix_pc = "idle"

InitIgnores ==
    /\ governance \in Governances
    /\ parse_result \in ParseResults
    /\ diagnostics \in DiagnosticLists(parse_result)
    /\ result = << >>
    /\ pc = "ready"
    /\ LintIdle
    /\ FixIdle
    /\ RestIdle

ApplyIgnores ==
    /\ pc = "ready"
    /\ result' = apply_ignores(diagnostics, parse_result, governance)
    /\ pc' = "done"
    /\ UNCHANGED << governance, parse_result, diagnostics >>
    /\ UNCHANGED << lint_vars, fix_vars, rest_vars >>

NextIgnores == ApplyIgnores

SpecIgnores == InitIgnores /\ [][NextIgnores]_vars

(***************************************************************************)
(* parser.py.  A file on disk is modelled by what reading and parsing it   *)
(* yields: kind "ok" (ast.parse returns a tree), "syntax" (ast.parse       *)
(* raises SyntaxError), "unreadable" (read_text raises OSError),           *)
(* "undecodable" (read_text raises UnicodeDecodeError) and "deep"          *)
(* (ast.parse raises RecursionError or MemoryError: an expression nested   *)
(* or chained beyond what the interpreter's parser takes, such as          *)
(* "x = " + "+".join(["1"] * 100000)).                                     *)
(* For a file that parses, findings are the places where the tree breaks a *)
(* rule: what the rule of that code reports when it is run.                *)
(***************************************************************************)
Shape(name) == CHOOSE s \in Shapes : s.name = name

Finding(code, line) == [code |-> code, line |-> line]

OkFile(pragmas, findings) ==
    [kind |-> "ok", pragmas |-> pragmas, findings |-> findings,
     lineno |-> NoInt, offset |-> NoInt]

FailingFile(kind, lineno, offset) ==
    [kind |-> kind, pragmas |-> << >>, findings |-> {},
     lineno |-> lineno, offset |-> offset]

\* the files of the model; every file that parses is the sample source "func"
\* with the pragma comments of the field pragmas
FileContents ==
    { OkFile(<< >>, {}),
      OkFile(<< >>, {Finding("TYP003", 3)}),
      OkFile(<< >>, {Finding("TYP001", 2), Finding("TYP003", 3)}),
      OkFile(1 :> [form |-> "ignore-file", codes |-> << "TYP001" >>,
                   reason |-> "legacy"],
             {Finding("TYP001", 2)}),
      OkFile(3 :> [form |-> "ignore", codes |-> << "TYP001", " IGN001" >>,
                   reason |-> None],
             {Finding("TYP001", 3)}),
      FailingFile("syntax", << 2 >>, << 0 >>),
      FailingFile("unreadable", NoInt, NoInt),
      FailingFile("undecodable", NoInt, NoInt),
      FailingFile("deep", NoInt, NoInt) }

\* the paths scan_files returns, in sorted order
FileNames == << "a.py", "b.py", "c.py", "d.py" >>

SyntaxErrorInfo(line, column, message) ==
    [line |-> line, column |-> column, message |-> message]

ParseResult(file, tree, source_lines, findings, syntax_error) ==
    [file |-> file, tree |-> tree, source_lines |-> source_lines,
     findings |-> findings, syntax_error |-> syntax_error]

Max(a, b) == IF a >= b THEN a ELSE b

\* does parse_file leave by an exception it does not catch
parse_file_raises(content) == content.kind = "deep"

\* the ParseResult of a file; syntax_error is a list of at most one
\* SyntaxErrorInfo, the empty list for None
parse_file(file, content) ==
    CASE content.kind = "unreadable" ->
            ParseResult(file, << >>, << >>, {},
                        << SyntaxErrorInfo(1, 1, "Cannot read file") >>)
      [] content.kind = "undecodable" ->
            ParseResult(file, << >>, << >>, {},
                        << SyntaxErrorInfo(1, 1, "Encoding error") >>)
      [] content.kind = "syntax" ->
            LET line == IF content.lineno # NoInt THEN content.lineno[1] ELSE 1
                column == Max(1, IF content.offset # NoInt
                                 THEN content.offset[1] ELSE 1)
            IN ParseResult(file, << >>,
                           SourceLines(Shape("func"), content.pragmas), {},
                           << SyntaxErrorInfo(line, column, "invalid syntax") >>)
      [] OTHER ->
            ParseResult(file, Shape("func").tree,
                        SourceLines(Shape("func"), content.pragmas),
                        content.findings, << >>)

(***************************************************************************)
(* rules/*.py: Rule.check.  A rule reports the findings of its own code,   *)
(* in line order, at the severity the configuration gives its code.        *)
(***************************************************************************)
check(code, pr, cfg) ==
    Flatten([l \in 1..Len(pr.source_lines) |->
        IF Finding(code, l) \in pr.findings
        THEN << Diagnostic(pr.file, l, 1, code, "rule", get_severity(cfg, code)) >>
        ELSE << >>])

(***************************************************************************)
(* diagnostics.py: DiagnosticCollection                                    *)
(***************************************************************************)

\* a slip: any diagnostic counts as an error
has_errors_AnyDiagnostic(coll) == coll # << >>

has_errors(coll) == \E i \in DOMAIN coll : coll[i].severity = ERROR

(***************************************************************************)
(* runner.py                                                               *)
(***************************************************************************)
_syntax_error_to_diagnostic(pr) ==
    LET err == pr.syntax_error[1]
    IN Diagnostic(pr.file, err.line, err.column, SYNTAX_ERROR_CODE, err.message,
                  ERROR)

\* the bound on the number of discovered files
MaxFiles == 2

SeverityMaps ==
    { DEFAULT_SEVERITIES,
      [c \in {"TYP001", "TYP003"} |-> WARN],
      [c \in {"TYP003"} |-> ERROR],
      [c \in DOMAIN DEFAULT_SEVERITIES |->
          IF c = "EXP001" THEN ERROR ELSE DEFAULT_SEVERITIES[c]] }

Configs == [severities : SeverityMaps, ignores : Governances]

\* file_diagnostics: the diagnostics of the enabled rules, in registry order
FileDiagnostics(pr, cfg) ==
    LET rules == get_enabled_rules(cfg)
    IN Flatten([i \in DOMAIN rules |-> check(rules[i], pr, cfg)])

IgnoresIdle ==
    /\ governance = DefaultConfig.ignores
    /\ parse_result = ParseResult("a.py", << >>, << >>, {}, << >>)
    /\ diagnostics = << >>
    /\ result = << >>
    /\ pc = "idle"

Init ==
    /\ config \in Configs
    /\ files \in UNION { [1..n -> FileContents] : n \in 0..MaxFiles }
    /\ file_idx = 1
    /\ collection = << >>
    /\ rule_checks = << >>
    /\ filtered = << >>
    /\ exit_code = NoInt
    /\ lint_pc = "loop"
    /\ IgnoresIdle
    /\ FixIdle
    /\ RestIdle

\* one turn of the loop over files: the file does not parse
LintSyntaxError ==
    /\ lint_pc = "loop"
    /\ file_idx <= Len(files)
    /\ ~parse_file_raises(files[file_idx])
    /\ LET pr == parse_file(FileNames[file_idx], files[file_idx])
       IN /\ pr.syntax_error # << >>
          /\ collection' = Append(collection, _syntax_error_to_diagnostic(pr))
    /\ file_idx' = file_idx + 1
    /\ UNCHANGED << config, files, rule_checks, filtered, exit_code, lint_pc >>
    /\ UNCHANGED << ignore_vars, fix_vars, rest_vars >>

\* one turn of the loop over files: the file parses
LintFile ==
    /\ lint_pc = "loop"
    /\ file_idx <= Len(files)
    /\ ~parse_file_raises(files[file_idx])
    /\ LET pr == parse_file(FileNames[file_idx], files[file_idx])
           rules == get_enabled_rules(config)
       IN /\ pr.syntax_error = << >>
          /\ rule_checks' = rule_checks
                \o [i \in DOMAIN rules |-> << pr.file, rules[i] >>]
          /\ filtered' = Append(filtered, pr.file)
          /\ collection' = collection
                \o apply_ignores(FileDiagnostics(pr, config), pr, config.ignores)
    /\ file_idx' = file_idx + 1
    /\ UNCHANGED << config, files, exit_code, lint_pc >>
    /\ UNCHANGED << ignore_vars, fix_vars, rest_vars >>

\* parse_file raises an exception it does not catch: lint_paths has no
\* handler either and is left without a LintResult
LintRaises ==
    /\ lint_pc = "loop"
    /\ file_idx <= Len(files)
    /\ parse_file_raises(files[file_idx])
    /\ lint_pc' = "raised"
    /\ UNCHANGED << config, files, file_idx, collection, rule_checks, filtered,
                    exit_code >>
    /\ UNCHANGED << ignore_vars, fix_vars, rest_vars >>

\* after the loop: the exit code of the LintResult
LintReturn ==
    /\ lint_pc = "loop"
    /\ file_idx > Len(files)
    /\ exit_code' = IF has_errors(collection) THEN << 1 >> ELSE << 0 >>
    /\ lint_pc' = "done"
    /\ UNCHANGED << config, files, file_idx, collection, rule_checks, filtered >>
    /\ UNCHANGED << ignore_vars, fix_vars, rest_vars >>

Next == LintSyntaxError \/ LintFile \/ LintRaises \/ LintReturn

Spec == Init /\ [][Next]_vars

(***************************************************************************)
(* fixers/*.py: source text.  A source string is a list of atoms: a token, *)
(* the indentation of a body line, a line feed or a form feed.  A column   *)
(* is a number of atoms.  str.splitlines breaks a string after a line feed *)
(* and after a form feed (and after the other separators of its list); the *)
(* tokenizer and ast number lines by line feeds alone and take a form feed *)
(* for white space.                                                        *)
(***************************************************************************)
NL == "\n"
FF == "\f"
INDENT == "    "
\* an expression of the grammar nested too deeply for ast.parse:
\* '+'.join(['1'] * 100000)
DEEP == "1+1+...+1"
\* an expression ast.parse takes and ast.NodeVisitor cannot walk within the
\* recursion limit: '+'.join(['1'] * 1000)
NESTED == "1+...+1"

\* the bound on the number of pieces a source is put together from
MaxChunks == 3

\* the pieces:  x = 1            x = 1 <FF>        # <FF>notes
\*              def f():         def f(a, b) -> None:      def f(:
\*                  pass             import os
\*                                   pass
\*              import os        from typing import Optional      x = 1+1+...+1
\*                               x: Optional[int] = 1
\*              class C:         def f():
\*                  import os        import requests
\*                                   pass
Chunks ==
    { << "x", "=", "1", NL >>,
      << "x", "=", "1", FF, NL >>,
      << "#", FF, "n", "o", "t", "e", "s", NL >>,
      << "def", "f", "(", ")", ":", NL, INDENT, "pass", NL >>,
      << "def", "f", "(", "a", ",", "b", ")", "->", "None", ":", NL,
         INDENT, "import", "os", NL, INDENT, "pass", NL >>,
      << "def", "f", "(", ":", NL >>,
      << "import", "os", NL >>,
      << "from", "typing", "import", "Optional", NL,
         "x", ":", "Optional", "[", "int", "]", "=", "1", NL >>,
      << "x", "=", DEEP, NL >>,
      << "class", "C", ":", NL, INDENT, "import", "os", NL >>,
      << "def", "f", "(", ")", ":", NL, INDENT, "import", "requests", NL,
         INDENT, "pass", NL >> }

Sources ==
    { Flatten(cs) : cs \in UNION { [1..n -> Chunks] : n \in 0..MaxChunks } }

\* the pieces of s, each ending with its separator
RECURSIVE SplitAfter(_, _)
SplitAfter(s, seps) ==
    IF s = << >> THEN << >>
    ELSE LET ends == { i \in DOMAIN s : s[i] \in seps }
             n == IF ends = {} THEN Len(s) ELSE Min(ends)
         IN << SubSeq(s, 1, n) >> \o SplitAfter(SubSeq(s, n + 1, Len(s)), seps)

\* source.splitlines(keepends=True)
splitlines(source) == SplitAfter(source, {NL, FF})

\* the lines as the tokenizer and ast number them
TokenLines(source) == SplitAfter(source, {NL})

IsSpace(a) == a \in {NL, FF, INDENT}

\* str.strip() of a line
strip(line) ==
    LET inked == { i \in DOMAIN line : ~IsSpace(line[i]) }
    IN IF inked = {} THEN << >>
       ELSE SubSeq(line, Min(inked), CHOOSE i \in inked : \A j \in inked : j <= i)

\* the tokens of a line: no comment, no line feed, no form feed
CodeOf(line) ==
    LET hashes == { i \in DOMAIN line : line[i] = "#" }
        upto == IF hashes = {} THEN Len(line) ELSE Min(hashes) - 1
        IsToken(a) == a \notin {NL, FF}
    IN SelectSeq(SubSeq(line, 1, upto), IsToken)

\* the grammar of the sources of the model
SimpleStatements ==
    { << "x", "=", "1" >>,
      << "x", ":", "int", "=", "1" >>,
      << "x", ":", "Optional", "[", "int", "]", "=", "1" >>,
      << "x", ":", "int", "|", "None", "=", "1" >>,
      << "x", "=", DEEP >>,
      << "x", "=", NESTED >>,
      << "import", "os" >>,
      << "import", "requests" >>,
      << "from", "typing", "import", "Optional" >>,
      << "pass" >> }

ParameterLists == { << >>, << "a", ",", "b" >>, << "*", ",", "a", ",", "b" >> }

DefHeader(params, returns) ==
    << "def", "f", "(" >> \o params \o << ")" >> \o returns \o << ":" >>

DefHeaders ==
    { DefHeader(p, r) : p \in ParameterLists, r \in { << >>, << "->", "None" >> } }

LineKind(line) ==
    LET c == CodeOf(line)
    IN CASE c = << >> \/ c = << INDENT >> -> "blank"
         [] c \in SimpleStatements -> "simple"
         [] c \in DefHeaders -> "def"
         [] c = << "class", "C", ":" >> -> "class"
         [] c # << >> /\ c[1] = INDENT /\ Tail(c) \in SimpleStatements -> "body"
         [] OTHER -> "invalid"

\* the parser accepts the source: every line is a statement of the grammar,
\* a def or class is followed by its body, a body line stands in one
Grammatical(source) ==
    LET lines == TokenLines(source)
        IsStatement(k) == k # "blank"
        kinds == SelectSeq([i \in DOMAIN lines |-> LineKind(lines[i])], IsStatement)
    IN \A i \in DOMAIN kinds :
          /\ kinds[i] # "invalid"
          /\ kinds[i] \in {"def", "class"} => i < Len(kinds) /\ kinds[i + 1] = "body"
          /\ kinds[i] = "body" => i > 1 /\ kinds[i - 1] \in {"def", "class", "body"}

\* ast.parse(source) raises RecursionError: the parser accepts the source and
\* the conversion of the tree exceeds the recursion limit (a source the
\* parser rejects raises SyntaxError before that)
ParseRaises(source) ==
    Grammatical(source) /\ \E i \in DOMAIN source : source[i] = DEEP

\* ast.parse(source) returns a tree
Parses(source) == Grammatical(source) /\ ~ParseRaises(source)

\* what a call returns in the model when an exception leaves it
Raised == << "RecursionError" >>

\* visitor.visit(tree) raises RecursionError
VisitRaises(source) ==
    Parses(source) /\ \E i \in DOMAIN source : source[i] = NESTED

\* the position of the first atom a of a line, counted from 1
IndexOf(line, a) == Min({ i \in DOMAIN line : line[i] = a })

\* line[:col] + text + line[col:]
InsertAt(line, col, text) ==
    LET c == IF col > Len(line) THEN Len(line) ELSE col
    IN SubSeq(line, 1, c) \o text \o SubSeq(line, c + 1, Len(line))

\* the columns of a set, inserted from the largest to the smallest
RECURSIVE InsertColumns(_, _, _)
InsertColumns(line, cols, text) ==
    IF cols = {} THEN line
    ELSE LET c == CHOOSE x \in cols : \A y \in cols : y <= x
         IN InsertColumns(InsertAt(line, c, text), cols \ {c}, text)

\* for line_idx, col in sorted(insertions, reverse=True):
\*     lines[line_idx] = line[:col] + text + line[col:]
\* (line_idx counts from 0)
Insert(lines, insertions, text) ==
    [i \in DOMAIN lines |->
        InsertColumns(lines[i],
                      { p.col : p \in { q \in insertions : q.line_idx = i - 1 } },
                      text)]

Position(line_idx, col) == [line_idx |-> line_idx, col |-> col]

(***************************************************************************)
(* fixers/_util.py                                                         *)
(***************************************************************************)
\* parse_source(source) is not None
parse_source(source) == Parses(source)

\* apply_insertions: the joined lines, or the source when they do not parse
apply_insertions(source, lines) ==
    LET joined == Flatten(lines)
    IN IF ~parse_source(joined) THEN source ELSE joined

(***************************************************************************)
(* fixers/typ002.py                                                        *)
(***************************************************************************)
\* the line numbers of the defs _FixableVisitor collects: no return annotation
FixableDefs(source) ==
    { l \in DOMAIN TokenLines(source) :
        CodeOf(TokenLines(source)[l]) \in { DefHeader(p, << >>) : p \in ParameterLists } }

\* (line counted from 0, column) of the colon that ends the def of line l
_find_def_colon(source, l) ==
    Position(l - 1, IndexOf(TokenLines(source)[l], ":") - 1)

fix_missing_return_none(source) ==
    IF ParseRaises(source) THEN Raised
    ELSE IF ~Parses(source) THEN source
    ELSE IF FixableDefs(source) = {} THEN source
    ELSE LET insertions == { _find_def_colon(source, l) : l \in FixableDefs(source) }
             lines == Insert(splitlines(source), insertions, << "->", "None" >>)
         IN Flatten(lines)

(***************************************************************************)
(* fixers/typ003.py                                                        *)
(***************************************************************************)
\* the line numbers of the assignments _FixableVisitor collects: one Name
\* target, a literal value
FixableAssignments(source) ==
    { l \in DOMAIN TokenLines(source) :
        CodeOf(TokenLines(source)[l])
            \in { << "x", "=", "1" >>, << INDENT, "x", "=", "1" >> } }

\* (line counted from 0, column) of the end of the target name of line l
_find_name_token_end(source, l) ==
    Position(l - 1, IndexOf(TokenLines(source)[l], "x"))

fix_missing_variable_annotations(source) ==
    IF ~parse_source(source) THEN source
    ELSE IF FixableAssignments(source) = {} THEN source
    ELSE LET insertions ==
                 { _find_name_token_end(source, l) : l \in FixableAssignments(source) }
             lines == Insert(splitlines(source), insertions, << ":", "int" >>)
         IN apply_insertions(source, lines)

(***************************************************************************)
(* fixers/kw001.py, with the default KW001Options                          *)
(***************************************************************************)
min_params == 2

\* the number of positional parameters of a parameter list
Positional(params) ==
    IF "*" \in { params[i] : i \in DOMAIN params } THEN 0
    ELSE Cardinality({ i \in DOMAIN params : params[i] # "," })

\* the line numbers of the defs _FixableVisitor collects: no keyword-only
\* parameter, at least min_params positional ones
FixableSignatures(source) ==
    { l \in DOMAIN TokenLines(source) :
        \E p \in ParameterLists, r \in { << >>, << "->", "None" >> } :
            /\ CodeOf(TokenLines(source)[l]) = DefHeader(p, r)
            /\ Positional(p) >= min_params }

\* (line counted from 0, column) right after the opening parenthesis
_find_star_insertion(source, l) ==
    Position(l - 1, IndexOf(TokenLines(source)[l], "("))

_fix_signatures(source) ==
    IF ~parse_source(source) THEN source
    ELSE IF VisitRaises(source) THEN Raised
    ELSE IF FixableSignatures(source) = {} THEN source
    ELSE LET insertions ==
                 { _find_star_insertion(source, l) : l \in FixableSignatures(source) }
             lines == Insert(splitlines(source), insertions, << "*", "," >>)
             modified == Flatten(lines)
         IN IF ~parse_source(modified) THEN source ELSE modified

(***************************************************************************)
(* fixers/imp001.py                                                        *)
(***************************************************************************)
_STDLIB_MODULES == {"os", "typing"}

ImportStatements ==
    { << "import", "os" >>, << "import", "requests" >>,
      << "from", "typing", "import", "Optional" >> }

\* the kind of the compound statement in whose body line l stands: that of
\* the nearest def or class line above it
BlockOf(source, l) ==
    LET heads == { h \in 1 .. l - 1 :
                     LineKind(TokenLines(source)[h]) \in {"def", "class"} }
    IN IF heads = {} THEN "module"
       ELSE LineKind(TokenLines(source)[CHOOSE h \in heads : \A g \in heads : g <= h])

\* the line numbers of the import statements in a body
NestedImports(source) ==
    { l \in DOMAIN TokenLines(source) :
        CodeOf(TokenLines(source)[l])
            \in { << INDENT >> \o s : s \in ImportStatements } }

\* _ImportCollector: the line numbers of the imports outside every function
\* (_function_depth = 0: at module level or in a class body) and of those
\* in a function
ModuleImports(source) ==
    { l \in DOMAIN TokenLines(source) :
        CodeOf(TokenLines(source)[l]) \in ImportStatements }
        \cup { l \in NestedImports(source) : BlockOf(source, l) = "class" }

LocalImports(source) ==
    { l \in NestedImports(source) : BlockOf(source, l) = "def" }

_is_stdlib_import(text) ==
    /\ Len(text) > 1
    /\ text[1] \in {"import", "from"}
    /\ text[2] \in _STDLIB_MODULES

\* the index after the last line that starts with import or from, counted
\* from 0
_after_last_import(lines) ==
    LET imports == { i \in DOMAIN lines :
                       /\ Len(strip(lines[i])) > 1
                       /\ strip(lines[i])[1] \in {"import", "from"} }
    IN IF imports = {} THEN 0
       ELSE CHOOSE i \in imports : \A j \in imports : j <= i

\* the members of a set of numbers, in rising order
RECURSIVE Ascending(_)
Ascending(S) ==
    IF S = {} THEN << >> ELSE << Min(S) >> \o Ascending(S \ {Min(S)})

\* the lines of a list whose index (from 1) is not in a set
Without(lines, removed) ==
    LET keep == Ascending(DOMAIN lines \ removed)
    IN [i \in DOMAIN keep |-> lines[keep[i]]]

fix_local_imports(source) ==
    LET lines == splitlines(source)
        InRange(l) == l <= Len(lines)
        existing_texts ==
            { strip(lines[l]) : l \in { m \in ModuleImports(source) : InRange(m) } }
        lines_to_remove == { l \in LocalImports(source) : InRange(l) }
        order == Ascending(lines_to_remove)
        IsNew(i) == /\ strip(lines[order[i]]) \notin existing_texts
                    /\ \A j \in 1..(i - 1) :
                          strip(lines[order[j]]) # strip(lines[order[i]])
        new_idx == Ascending({ i \in DOMAIN order : IsNew(i) })
        new_import_texts == [i \in DOMAIN new_idx |-> strip(lines[order[new_idx[i]]])]
        kept_lines == Without(lines, lines_to_remove)
        IsOther(t) == ~_is_stdlib_import(t)
        stdlib_texts == SelectSeq(new_import_texts, _is_stdlib_import)
        other_texts == SelectSeq(new_import_texts, IsOther)
        block == [i \in DOMAIN stdlib_texts |-> stdlib_texts[i] \o << NL >>]
                 \o (IF stdlib_texts # << >> /\ other_texts # << >>
                     THEN << << NL >> >> ELSE << >>)
                 \o [i \in DOMAIN other_texts |-> other_texts[i] \o << NL >>]
        insert_pos == IF stdlib_texts = << >> THEN _after_last_import(kept_lines)
                      ELSE 0
        import_block ==
            block \o (IF insert_pos < Len(kept_lines)
                         /\ strip(kept_lines[insert_pos + 1]) # << >>
                      THEN << << NL >> >> ELSE << >>)
        joined == IF new_import_texts = << >> THEN Flatten(kept_lines)
                  ELSE Flatten(SubSeq(kept_lines, 1, insert_pos) \o import_block
                               \o SubSeq(kept_lines, insert_pos + 1, Len(kept_lines)))
    IN IF ~parse_source(source) THEN source
       ELSE IF lines = << >> THEN source
       ELSE IF LocalImports(source) = {} THEN source
       ELSE IF lines_to_remove = {} THEN source
       ELSE IF ~parse_source(joined) THEN source
       ELSE joined

(***************************************************************************)
(* fixers/typ010.py.  The fixer works on the concrete syntax tree of       *)
(* libcst: it replaces nodes and prints the tree, without line indices.    *)
(***************************************************************************)
_HAS_LIBCST == TRUE

\* the names imported from typing that are legacy constructs
LegacyNames(source) ==
    IF \E l \in DOMAIN TokenLines(source) :
          CodeOf(TokenLines(source)[l])
             \in { << "from", "typing", "import", "Optional" >>,
                   << INDENT, "from", "typing", "import", "Optional" >> }
    THEN {"Optional"} ELSE {}

\* _LegacyTypingTransformer: Optional[T] becomes T | None
RECURSIVE Modernize(_)
Modernize(s) ==
    IF s = << >> THEN << >>
    ELSE IF Len(s) >= 4 /\ SubSeq(s, 1, 4) = << "Optional", "[", "int", "]" >>
    THEN << "int", "|", "None" >> \o Modernize(SubSeq(s, 5, Len(s)))
    ELSE << Head(s) >> \o Modernize(Tail(s))

\* _ImportCleaner: the typing imports whose names are all removable go
CleanImports(source) ==
    LET lines == TokenLines(source)
        Stays(line) == CodeOf(line) # << "from", "typing", "import", "Optional" >>
    IN Flatten(SelectSeq(lines, Stays))

\* str.lstrip("\n")
RECURSIVE lstrip(_)
lstrip(s) == IF s # << >> /\ Head(s) = NL THEN lstrip(Tail(s)) ELSE s

\* cst.parse_module raises ParserSyntaxError for a source the grammar rejects
fix_legacy_typing(source) ==
    IF ~_HAS_LIBCST THEN source
    ELSE IF strip(source) = << >> THEN source
    ELSE IF ~Grammatical(source) THEN source
    ELSE IF LegacyNames(source) = {} THEN source
    ELSE IF Modernize(source) = source THEN source
    ELSE lstrip(CleanImports(Modernize(source)))

(***************************************************************************)
(* fixers/pipeline.py                                                      *)
(***************************************************************************)
\* the next call of a chain: an exception that left a call leaves the chain
Then(out, F(_)) == IF out = Raised THEN Raised ELSE F(out)

fix_all(source) ==
    Then(Then(Then(fix_legacy_typing(source),
                   fix_local_imports),
              fix_missing_return_none),
         fix_missing_variable_annotations)

(***************************************************************************)
(* A call of one fixer, or of fix_all, on one source string, and a second  *)
(* call of the same function on what the first call returned.  input is    *)
(* the argument of the latest call and output what it returned.            *)
(***************************************************************************)
Fixers == {"TYP010", "IMP001", "TYP002", "TYP003", "KW001"}

HasDeep(source) == \E i \in DOMAIN source : source[i] = DEEP

InitFix ==
    /\ input \in Sources
    /\ fixer = None
    /\ output = << >>
    /\ fix_pc = "ready"
    /\ IgnoresIdle
    /\ LintIdle
    /\ RestIdle

Fixed(name, F(_)) ==
    /\ \/ fix_pc = "ready"
       \/ fix_pc = "done" /\ fixer = name /\ output # Raised
    /\ LET arg == IF fix_pc = "ready" THEN input ELSE output
       IN /\ input' = arg
          /\ output' = F(arg)
    /\ fixer' = name
    /\ fix_pc' = IF fix_pc = "ready" THEN "done" ELSE "again"
    /\ UNCHANGED << ignore_vars, lint_vars, rest_vars >>

\* what libcst does with the deep expression is not code of the fixers: the
\* call is modelled for the other sources
FixLegacyTyping == ~HasDeep(input) /\ Fixed("TYP010", fix_legacy_typing)

FixLocalImports == Fixed("IMP001", fix_local_imports)

FixMissingReturnNone == Fixed("TYP002", fix_missing_return_none)

FixMissingVariableAnnotations ==
    Fixed("TYP003", fix_missing_variable_annotations)

FixKeywordOnly == Fixed("KW001", _fix_signatures)

FixAll == Fixed("fix_all", fix_all)

NextFix ==
    \/ FixLegacyTyping
    \/ FixLocalImports
    \/ FixMissingReturnNone
    \/ FixMissingVariableAnnotations
    \/ FixKeywordOnly
    \/ FixAll

SpecFix == InitFix /\ [][NextFix]_vars

(***************************************************************************)
(* fixers/kw001.py: fix_keyword_only over the sources of several files.    *)
(* input is the dict of the sources, output the FixResult, or that an      *)
(* exception left the call.                                                *)
(***************************************************************************)
\* the sources of a file:  x = 1       def f(a, b):    def f(a, b):   def f(:
\*                                         pass            pass
\*                                                     # <FF>notes
\*                                                     def f(a, b):
\*                                                         pass
\*                         x = 1+...+1 (walked too deep)   x = 1+1+...+1
KwSources ==
    { << "x", "=", "1", NL >>,
      << "def", "f", "(", "a", ",", "b", ")", ":", NL, INDENT, "pass", NL >>,
      << "def", "f", "(", "a", ",", "b", ")", ":", NL, INDENT, "pass", NL,
         "#", FF, "n", "o", "t", "e", "s", NL,
         "def", "f", "(", "a", ",", "b", ")", ":", NL, INDENT, "pass", NL >>,
      << "def", "f", "(", "*", ",", "a", ",", "b", ")", ":", NL, INDENT, "pass", NL >>,
      << "x", "=", "1", FF, NL,
         "def", "f", "(", "a", ",", "b", ")", ":", NL, INDENT, "pass", NL >>,
      << "def", "f", "(", ":", NL >>,
      << "x", "=", NESTED, NL >>,
      << "x", "=", DEEP, NL >>,
      << >> }

\* for file_path, source in sources.items():
\*     fixed_sources[file_path] = _fix_signatures(source, opts=opts)
fix_keyword_only(sources) ==
    IF \E file_path \in DOMAIN sources : _fix_signatures(sources[file_path]) = Raised
    THEN [raised |-> TRUE, sources |-> << >>]
    ELSE [raised |-> FALSE,
          sources |-> [file_path \in DOMAIN sources |->
                          _fix_signatures(sources[file_path])]]

InitKw ==
    /\ input \in UNION { [ps -> KwSources] : ps \in SUBSET { "a.py", "b.py" } }
    /\ fixer = None
    /\ output = << >>
    /\ fix_pc = "sources"
    /\ IgnoresIdle
    /\ LintIdle
    /\ RestIdle

FixedBy(run(_)) ==
    /\ fix_pc = "sources"
    /\ output' = run(input)
    /\ fixer' = "KW001"
    /\ fix_pc' = "fixed"
    /\ UNCHANGED << input, ignore_vars, lint_vars, rest_vars >>

FixSources == FixedBy(fix_keyword_only)

NextKw == FixSources

SpecKw == InitKw /\ [][NextKw]_vars

(***************************************************************************)
(* The loop that applies the insertions a fixer has collected               *)
(* (typ002.py:41-46, typ003.py:61-66, kw001.py:83-88): input is the source *)
(* and the positions (line counted from 0, column) found in it, output the *)
(* insertions made of them and the joined lines.  The positions of one     *)
(* call are ends of distinct tokens, so no two of them are equal and the   *)
(* text never decides the order of two tuples.                             *)
(***************************************************************************)
\* the bound on the number of insertions of one call
MaxInsertions == 2

InsertionSources ==
    { << "x", "=", "1", ";", "x", "=", "1", NL, "z", "=", "3", NL >>,
      << "def", "f", "(", "a", ",", "b", ")", ":", NL, INDENT, "pass", NL >>,
      << "x", "=", "1" >> }

\* every (line_idx, col) of the lines of the source
PositionsIn(source) ==
    UNION { { Position(i - 1, c) : c \in 0 .. Len(splitlines(source)[i]) } :
              i \in DOMAIN splitlines(source) }

InsertionInputs ==
    UNION { { [source |-> s, positions |-> P] :
                P \in { Q \in SUBSET PositionsIn(s) :
                          Q # { } /\ Cardinality(Q) <= MaxInsertions } } :
              s \in InsertionSources }

\* the order of the tuples (line_idx, col, ...)
TupleLess(p, q) ==
    \/ p.line_idx < q.line_idx
    \/ p.line_idx = q.line_idx /\ p.col < q.col

sorted_Ascending(insertions) ==
    LET RECURSIVE rising(_)
        rising(rest) ==
            IF rest = { } THEN << >>
            ELSE LET first == CHOOSE p \in rest :
                                  \A q \in rest : q = p \/ TupleLess(p, q)
                 IN << first >> \o rising(rest \ { first })
    IN rising(insertions)

\* sorted(insertions, reverse=True)
sorted_reverse(insertions) ==
    LET RECURSIVE falling(_)
        falling(rest) ==
            IF rest = { } THEN << >>
            ELSE LET last == CHOOSE p \in rest :
                                 \A q \in rest : q = p \/ TupleLess(q, p)
                 IN << last >> \o falling(rest \ { last })
    IN falling(insertions)

\* for line_idx, col, text in order:
\*     lines[line_idx] = lines[line_idx][:col] + text + lines[line_idx][col:]
RECURSIVE apply_in_order(_, _)
apply_in_order(lines, order) ==
    IF order = << >> THEN lines
    ELSE apply_in_order(
             [lines EXCEPT ![Head(order).line_idx + 1] =
                 InsertAt(@, Head(order).col, Head(order).text)],
             Tail(order))

\* lines = source.splitlines(keepends=True); the loop; "".join(lines)
insert_loop(source, insertions) ==
    Flatten(apply_in_order(splitlines(source), sorted_reverse(insertions)))

InitInsert ==
    /\ input \in InsertionInputs
    /\ fixer = None
    /\ output = << >>
    /\ fix_pc = "collected"
    /\ IgnoresIdle
    /\ LintIdle
    /\ RestIdle

\* the loop of the fixer of the name, each insertion with one of its texts
Inserted(name, texts) ==
    /\ fix_pc = "collected"
    /\ \E text_of \in [input.positions -> texts] :
          LET insertions ==
                  { [line_idx |-> p.line_idx, col |-> p.col, text |-> text_of[p]] :
                      p \in input.positions }
          IN output' = [insertions |-> insertions,
                        text |-> insert_loop(input.source, insertions)]
    /\ fixer' = name
    /\ fix_pc' = "inserted"
    /\ UNCHANGED << input, ignore_vars, lint_vars, rest_vars >>

InsertReturnNone == Inserted("TYP002", { << "->", "None" >> })

InsertAnnotations == Inserted("TYP003", { << ":", "int" >>, << ":", "str" >> })

InsertStar == Inserted("KW001", { << "*", "," >>, << " ", "*", "," >> })

NextInsert == InsertReturnNone \/ InsertAnnotations \/ InsertStar

SpecInsert == InitInsert /\ [][NextInsert]_vars

(***************************************************************************)
(* diagnostics.py: DiagnosticCollection.  The lists live in a heap so that *)
(* a returned list can be told from the list of the collection.            *)
(***************************************************************************)
\* the bound on the number of diagnostics added to a collection
MaxAdded == 3

\* the rank of str(file) in the order of Python strings (by code point)
StrRank(file) ==
    CASE file = "B.py" -> 1
      [] file = "a.py" -> 2
      [] file = "b.py" -> 3
      [] file = "c.py" -> 4
      [] file = "d.py" -> 5

\* a slip: the file is left out of the key
sorted_key_WithoutFile(d) == << 0, d.line, d.column >>

\* key=lambda d: (str(d.file), d.location.line, d.location.column)
sorted_key(d) == << StrRank(d.file), d.line, d.column >>

\* tuple comparison k1 <= k2
KeyLeq(k1, k2) ==
    \/ k1[1] < k2[1]
    \/ k1[1] = k2[1] /\ k1[2] < k2[2]
    \/ k1[1] = k2[1] /\ k1[2] = k2[2] /\ k1[3] <= k2[3]

\* a slip: the column is left out of the key
sorted_ByFileAndLine(list) ==
    LET Key(d) == << StrRank(d.file), d.line, 0 >>
        Place(acc, d) ==
            LET before == { i \in DOMAIN acc : KeyLeq(Key(acc[i]), Key(d)) }
                n == Cardinality(before)
            IN SubSeq(acc, 1, n) \o << d >> \o SubSeq(acc, n + 1, Len(acc))
        RECURSIVE UpTo(_)
        UpTo(n) == IF n = 0 THEN << >> ELSE Place(UpTo(n - 1), list[n])
    IN UpTo(Len(list))

\* sorted(self._diagnostics, key=...): a new list, stable: every element goes
\* behind the elements placed before it whose key is not greater
sorted(list) ==
    LET Place(acc, d) ==
            LET before == { i \in DOMAIN acc :
                              KeyLeq(sorted_key(acc[i]), sorted_key(d)) }
                n == Cardinality(before)
            IN SubSeq(acc, 1, n) \o << d >> \o SubSeq(acc, n + 1, Len(acc))
        RECURSIVE UpTo(_)
        UpTo(n) == IF n = 0 THEN << >> ELSE Place(UpTo(n - 1), list[n])
    IN UpTo(Len(list))

\* the diagnostics handed to a collection
AddedDiagnostics ==
    { Diagnostic(f, lc[1], lc[2], "TYP001", "m", sev) :
        f \in {"B.py", "a.py"}, lc \in { << 1, 1 >>, << 1, 2 >>, << 2, 1 >> },
        sev \in {ERROR, WARN} }

InitCollection ==
    /\ heap = << << >> >>
    /\ returned = 0
    /\ added = << >>
    /\ coll_pc = "open"
    /\ IgnoresIdle
    /\ LintIdle
    /\ FixIdle
    /\ CliIdle
    /\ ScanIdle
    /\ LateIdle

\* collection.add(diagnostic=d)
Add ==
    /\ coll_pc = "open"
    /\ Len(added) < MaxAdded
    /\ \E d \in AddedDiagnostics :
          /\ heap' = [heap EXCEPT ![1] = Append(@, d)]
          /\ added' = Append(added, d)
    /\ UNCHANGED << returned, coll_pc >>
    /\ UNCHANGED << ignore_vars, lint_vars, fix_vars, cli_vars, scan_vars, late_vars >>

\* collection.add_all(diagnostics=ds)
AddAll ==
    /\ coll_pc = "open"
    /\ \E ds \in UNION { [1..n -> AddedDiagnostics] : n \in {0, 2} } :
          /\ Len(added) + Len(ds) <= MaxAdded
          /\ heap' = [heap EXCEPT ![1] = @ \o ds]
          /\ added' = added \o ds
    /\ UNCHANGED << returned, coll_pc >>
    /\ UNCHANGED << ignore_vars, lint_vars, fix_vars, cli_vars, scan_vars, late_vars >>

\* collection.sorted: the built-in sorted allocates the list it returns
Sorted ==
    /\ coll_pc = "open"
    /\ heap' = Append(heap, sorted(heap[1]))
    /\ returned' = Len(heap) + 1
    /\ coll_pc' = "sorted"
    /\ UNCHANGED added
    /\ UNCHANGED << ignore_vars, lint_vars, fix_vars, cli_vars, scan_vars, late_vars >>

\* the caller empties the list it got: returned.clear()
ClearReturned ==
    /\ coll_pc = "sorted"
    /\ heap' = [heap EXCEPT ![returned] = << >>]
    /\ coll_pc' = "cleared"
    /\ UNCHANGED << returned, added >>
    /\ UNCHANGED << ignore_vars, lint_vars, fix_vars, cli_vars, scan_vars, late_vars >>

NextCollection == Add \/ AddAll \/ Sorted \/ ClearReturned

SpecCollection == InitCollection /\ [][NextCollection]_vars

(***************************************************************************)
(* cli.py: the fix command.  runner.fix_paths, which the command imports,  *)
(* is modelled as the specification describes it: it computes the changes  *)
(* of the fixer chain for every file and writes nothing.                   *)
(***************************************************************************)
\* the bound on the number of lines waiting on standard input
MaxAnswers == 2

ModeOptions == {"--diff", "--check", "--tryout"}

\* the options the command declares: --diff (show_diff), --check (check_only)
DeclaredOptions == {"--diff", "--check"}

Paths == {"a.py", "b.py"}

\* the texts of the files: one the chain changes, one it does not, one that
\* does not parse
FileTexts ==
    { << "def", "f", "(", ")", ":", NL, INDENT, "pass", NL >>,
      << "import", "os", NL >>,
      << "def", "f", "(", ":", NL >> }

Trees == UNION { [ps -> FileTexts] : ps \in SUBSET Paths }

AnswerLists ==
    UNION { [1..n -> {"y", "n", "a", "q"}] : n \in 0..MaxAnswers }

\* FixResult.changes: path -> (old, new) for every file the chain changes
fix_paths(tree) ==
    [p \in { q \in DOMAIN tree : fix_all(tree[q]) # tree[q] } |->
        [old |-> tree[p], new |-> fix_all(tree[p])]]

\* FixResult.files_changed
files_changed(changes) == Cardinality(DOMAIN changes)

InitCli ==
    /\ argv \in SUBSET ModeOptions
    /\ answers \in (IF "--tryout" \in argv THEN AnswerLists ELSE { << >> })
    /\ original \in Trees
    /\ disk = original
    /\ cli_mode = "none"
    /\ cli_exit = NoInt
    /\ cli_pc = "ready"
    /\ IgnoresIdle
    /\ LintIdle
    /\ FixIdle
    /\ CollIdle
    /\ ScanIdle
    /\ LateIdle

\* click rejects an option the command does not declare ("No such option"),
\* before the body of the command runs, with exit code 2
FixNoSuchOption ==
    /\ cli_pc = "ready"
    /\ ~(argv \subseteq DeclaredOptions)
    /\ cli_mode' = "usage"
    /\ cli_exit' = << 2 >>
    /\ cli_pc' = "done"
    /\ UNCHANGED << argv, answers, original, disk >>
    /\ UNCHANGED << ignore_vars, lint_vars, fix_vars, coll_vars, scan_vars, late_vars >>

\* if show_diff: print the diffs and return
FixDiff ==
    /\ cli_pc = "ready"
    /\ argv \subseteq DeclaredOptions
    /\ "--diff" \in argv
    /\ cli_mode' = "diff"
    /\ cli_exit' = << 0 >>
    /\ cli_pc' = "done"
    /\ UNCHANGED << argv, answers, original, disk >>
    /\ UNCHANGED << ignore_vars, lint_vars, fix_vars, coll_vars, scan_vars, late_vars >>

\* the modes that run the fixers, over the function the command imports as
\* fix_paths (run).  A slip: the check mode goes on to write the files
FixCheck_AlsoWritesBy(run(_)) ==
    /\ cli_pc = "ready"
    /\ argv \subseteq DeclaredOptions
    /\ "--diff" \notin argv
    /\ "--check" \in argv
    /\ LET changes == run(disk)
       IN /\ cli_exit' = IF files_changed(changes) > 0 THEN << 1 >> ELSE << 0 >>
          /\ disk' = [p \in DOMAIN disk |->
                         IF p \in DOMAIN changes THEN changes[p].new ELSE disk[p]]
    /\ cli_mode' = "check"
    /\ cli_pc' = "done"
    /\ UNCHANGED << argv, answers, original >>
    /\ UNCHANGED << ignore_vars, lint_vars, fix_vars, coll_vars, scan_vars, late_vars >>

\* if check_only: exit 1 when a file would change
FixCheckBy(run(_)) ==
    /\ cli_pc = "ready"
    /\ argv \subseteq DeclaredOptions
    /\ "--diff" \notin argv
    /\ "--check" \in argv
    /\ LET changes == run(disk)
       IN cli_exit' = IF files_changed(changes) > 0 THEN << 1 >> ELSE << 0 >>
    /\ cli_mode' = "check"
    /\ cli_pc' = "done"
    /\ UNCHANGED << argv, answers, original, disk >>
    /\ UNCHANGED << ignore_vars, lint_vars, fix_vars, coll_vars, scan_vars, late_vars >>

\* the default: write the changed files in place
FixWriteBy(run(_)) ==
    /\ cli_pc = "ready"
    /\ argv = {}
    /\ LET changes == run(disk)
       IN disk' = [p \in DOMAIN disk |->
                      IF p \in DOMAIN changes THEN changes[p].new ELSE disk[p]]
    /\ cli_mode' = "write"
    /\ cli_exit' = << 0 >>
    /\ cli_pc' = "done"
    /\ UNCHANGED << argv, answers, original >>
    /\ UNCHANGED << ignore_vars, lint_vars, fix_vars, coll_vars, scan_vars, late_vars >>

FixCheck_AlsoWrites == FixCheck_AlsoWritesBy(fix_paths)

FixCheck == FixCheckBy(fix_paths)

FixWrite == FixWriteBy(fix_paths)

NextCli == FixNoSuchOption \/ FixDiff \/ FixCheck \/ FixWrite

SpecCli == InitCli /\ [][NextCli]_vars

(***************************************************************************)
(* scanner.py.  A path is the list of its components below the directory   *)
(* the tree of the model hangs in; a pattern is the list of the segments   *)
(* its slashes separate: "build/**" is << "build", "**" >>.                *)
(***************************************************************************)
\* the bound on the number of input paths of a scan
MaxRoots == 2

\* the tree:  main.py  notes.txt  build/y.py  src/app.py  src/build/x.py
TreeFiles ==
    { << "main.py" >>, << "notes.txt" >>, << "build", "y.py" >>,
      << "src", "app.py" >>, << "src", "build", "x.py" >> }

TreeDirs == { << >>, << "build" >>, << "src" >>, << "src", "build" >> }

\* the order of pathlib.Path: by the tuple of the components
PathOrder ==
    << << "build", "y.py" >>, << "main.py" >>, << "notes.txt" >>,
       << "src", "app.py" >>, << "src", "build", "x.py" >> >>

Last(path) == path[Len(path)]

\* path.parent
Parent(path) == SubSeq(path, 1, Len(path) - 1)

\* path.relative_to(base) does not raise ValueError
IsPrefix(base, path) ==
    Len(base) <= Len(path) /\ SubSeq(path, 1, Len(base)) = base

\* path.suffix == ".py"
IsPy(name) == name \in {"main.py", "y.py", "app.py", "x.py"}

\* fnmatch(path, pattern) for the patterns of the model: "*.py", whose star
\* also runs over slashes, and a pattern without wildcard
fnmatch(parts, pattern) ==
    IF pattern = << "*.py" >> THEN parts # << >> /\ IsPy(Last(parts))
    ELSE parts = pattern

_match_doublestar(parts, pattern) ==
    LET stars == { i \in DOMAIN pattern : pattern[i] = "**" }
        first == Min(stars)
    IN IF pattern = << "**", "*.py" >> THEN IsPy(Last(parts))
       ELSE IF Head(pattern) = "**" /\ Last(pattern) = "**"
       THEN LET middle == SubSeq(pattern, 2, Len(pattern) - 1)
            IN \E i \in 1..(Len(parts) - 1) : fnmatch(<< parts[i] >>, middle)
       ELSE IF Head(pattern) = "**"
       THEN \E i \in DOMAIN parts :
               fnmatch(SubSeq(parts, i, Len(parts)), Tail(pattern))
       ELSE IF first < Len(pattern)
       THEN LET prefix == SubSeq(pattern, 1, first - 1)
                tail == SubSeq(pattern, first + 1, Len(pattern))
            IN /\ IsPrefix(prefix, parts)
               /\ Len(parts) > Len(prefix)
               /\ \E i \in (Len(prefix) + 1)..Len(parts) :
                     fnmatch(SubSeq(parts, i, Len(parts)), tail)
       ELSE IsPrefix(SubSeq(pattern, 1, Len(pattern) - 1), parts)

_glob_match(parts, pattern) ==
    IF \E i \in DOMAIN pattern : pattern[i] = "**"
    THEN _match_doublestar(parts, pattern)
    ELSE fnmatch(parts, pattern)

_matches_pattern(path, patterns, base) ==
    LET rel_path == IF IsPrefix(base, path)
                    THEN SubSeq(path, Len(base) + 1, Len(path))
                    ELSE path
    IN \E i \in DOMAIN patterns : _glob_match(rel_path, patterns[i])

_collect_python_files(path) ==
    IF path \in TreeFiles THEN (IF IsPy(Last(path)) THEN {path} ELSE {})
    ELSE { f \in TreeFiles : IsPrefix(path, f) /\ IsPy(Last(f)) }

\* the base of a file: that of the first input path, in the order of the
\* arguments, that is the file or a directory above it
RECURSIVE BaseFrom(_, _, _)
BaseFrom(file_path, inputs, i) ==
    IF i > Len(inputs) THEN Parent(file_path)
    ELSE IF inputs[i] \in TreeFiles
    THEN (IF file_path = inputs[i] THEN Parent(inputs[i])
          ELSE BaseFrom(file_path, inputs, i + 1))
    ELSE IF IsPrefix(inputs[i], file_path) THEN inputs[i]
    ELSE BaseFrom(file_path, inputs, i + 1)

scan_files(inputs, cfg) ==
    LET all_files == UNION { _collect_python_files(inputs[i]) : i \in DOMAIN inputs }
        Kept(f) == /\ f \in all_files
                   /\ ~_matches_pattern(f, cfg.exclude, BaseFrom(f, inputs, 1))
                   /\ _matches_pattern(f, cfg.include, BaseFrom(f, inputs, 1))
    IN SelectSeq(PathOrder, Kept)

IncludePatterns ==
    { << << "**", "*.py" >> >>, << << "src", "**", "*.py" >> >>, << << "*.py" >> >> }

ExcludePatterns ==
    { << >>, << << "build", "**" >> >>, << << "**", "build", "**" >> >>,
      << << "**", "y.py" >>, << "main.py" >> >> }

InitScan ==
    /\ scan_paths \in UNION { [1..n -> TreeDirs \cup TreeFiles] : n \in 1..MaxRoots }
    /\ scan_config \in [include : IncludePatterns, exclude : ExcludePatterns]
    /\ scan_result = << >>
    /\ scan_pc = "ready"
    /\ IgnoresIdle
    /\ LintIdle
    /\ FixIdle
    /\ CollIdle
    /\ CliIdle
    /\ LateIdle

ScanFiles ==
    /\ scan_pc = "ready"
    /\ scan_result' = scan_files(scan_paths, scan_config)
    /\ scan_pc' = "done"
    /\ UNCHANGED << scan_paths, scan_config >>
    /\ UNCHANGED << ignore_vars, lint_vars, fix_vars, coll_vars, cli_vars, late_vars >>

NextScan == ScanFiles

SpecScan == InitScan /\ [][NextScan]_vars

(***************************************************************************)
(* parser.py: parse_file on the text of a file.  The text is a source of   *)
(* the fixer model, with or without the line feed at its end.  ast.parse   *)
(* returns a tree or raises SyntaxError; the lineno and offset of the      *)
(* exception are the interpreter's: absent (None), or a line up to one     *)
(* past the last (an error found at the end of the input) and an offset    *)
(* from 0.                                                                 *)
(***************************************************************************)
ParserTexts ==
    LET shallow == { s \in Sources : ~HasDeep(s) }
    IN shallow \cup { SubSeq(s, 1, Len(s) - 1) : s \in shallow \ { << >> } }

\* ast.parse(source) returned
Tree == [raises |-> FALSE, lineno |-> NoInt, offset |-> NoInt]

\* the SyntaxError exceptions ast.parse(source) may raise
SyntaxErrors(source) ==
    [raises : {TRUE},
     lineno : {NoInt} \cup { << n >> : n \in 1..(Len(TokenLines(source)) + 1) },
     offset : {NoInt, << 0 >>, << 2 >>}]

\* tuple(source.splitlines()): the lines without their separators
tuple_splitlines(source) ==
    LET kept == splitlines(source)
    IN [i \in DOMAIN kept |->
           IF kept[i][Len(kept[i])] \in {NL, FF}
           THEN SubSeq(kept[i], 1, Len(kept[i]) - 1) ELSE kept[i]]

\* parse_file from the split of the lines on: the ParseResult, syntax_error
\* and source_line being lists of at most one element, empty for None
parse_file_from(source, e) ==
    LET lines == tuple_splitlines(source)
        line == IF e.lineno # NoInt THEN e.lineno[1] ELSE 1
        column == Max(1, IF e.offset # NoInt THEN e.offset[1] ELSE 1)
        source_line == IF 1 <= line /\ line <= Len(lines)
                       THEN << lines[line] >> ELSE << >>
    IN [source |-> source, source_lines |-> lines,
        syntax_error |->
            IF e.raises
            THEN << [line |-> line, column |-> column,
                     source_line |-> source_line] >>
            ELSE << >>]

InitParser ==
    /\ source_text \in ParserTexts
    /\ ast_report \in (IF Parses(source_text) THEN {Tree}
                       ELSE SyntaxErrors(source_text))
    /\ parse_out = << >>
    /\ parse_pc = "ready"
    /\ IgnoresIdle
    /\ LintIdle
    /\ FixIdle
    /\ CollIdle
    /\ CliIdle
    /\ ScanIdle
    /\ RulesIdle

ParseFile ==
    /\ parse_pc = "ready"
    /\ parse_out' = parse_file_from(source_text, ast_report)
    /\ parse_pc' = "done"
    /\ UNCHANGED << source_text, ast_report >>
    /\ UNCHANGED << ignore_vars, lint_vars, fix_vars, coll_vars, cli_vars,
                    scan_vars, rule_vars >>

NextParser == ParseFile

SpecParser == InitParser /\ [][NextParser]_vars

(***************************************************************************)
(* rules/kw001.py, rules/imp001.py, rules/typ003.py: the visitors.  A node *)
(* of the tree has the fields of its ast class that the visitors read, the *)
(* others being empty.  The name of a def is the list of its characters.   *)
(* The path of a node, the list of the child indices that lead to it,      *)
(* stands for its lineno and col_offset.  generic_visit visits the child   *)
(* statements in field order: body, the bodies of the handlers, orelse.    *)
(***************************************************************************)
\* the bound on the depth of the compound statements around a statement
MaxNesting == 2

\* an expression node: Name(id), Attribute(value, attr), Tuple(elts),
\* Subscript; value is the kind of the node the attribute is taken of
Expr(kind, id, attr, value, elts) ==
    [kind |-> kind, id |-> id, attr |-> attr, value |-> value, elts |-> elts]

Name(id) == Expr("Name", id, "", "", << >>)

Attribute(value, attr) == Expr("Attribute", "", attr, value, << >>)

Tuple(elts) == Expr("Tuple", "", "", "", elts)

NoArguments == [posonlyargs |-> << >>, args |-> << >>, vararg |-> FALSE,
                kwonlyargs |-> << >>]

Node(kind) ==
    [kind |-> kind, name |-> << >>, decorator_list |-> << >>,
     args |-> NoArguments, test |-> << >>, handlers |-> << >>,
     targets |-> << >>, names |-> << >>, body |-> << >>, orelse |-> << >>]

Pass == Node("Pass")

\* "def NAME(ARGS): pass", decorated
Def(name, decorator_list, arguments) ==
    [Node("FunctionDef") EXCEPT !.name = name, !.decorator_list = decorator_list,
                                !.args = arguments, !.body = << Pass >>]

Arguments(posonlyargs, args, vararg, kwonlyargs) ==
    [posonlyargs |-> posonlyargs, args |-> args, vararg |-> vararg,
     kwonlyargs |-> kwonlyargs]

\* the child statements of a node, in the order generic_visit takes them
Children(node) ==
    node.body \o Flatten([i \in DOMAIN node.handlers |-> node.handlers[i].body])
              \o node.orelse

\* Diagnostic: the code, the place of the node and what the message names
RuleDiagnostic(code, path, subject) ==
    [code |-> code, path |-> path, subject |-> subject]

StartsWith(s, prefix) ==
    Len(s) >= Len(prefix) /\ SubSeq(s, 1, Len(prefix)) = prefix

EndsWith(s, suffix) ==
    Len(s) >= Len(suffix) /\ SubSeq(s, Len(s) - Len(suffix) + 1, Len(s)) = suffix

_is_dunder(name) ==
    Len(name) > 4 /\ StartsWith(name, << "_", "_" >>) /\ EndsWith(name, << "_", "_" >>)

_is_private(name) == StartsWith(name, << "_" >>) /\ ~_is_dunder(name)

_has_override_decorator(node) ==
    \E i \in DOMAIN node.decorator_list :
        LET decorator == node.decorator_list[i]
        IN \/ decorator.kind = "Name" /\ decorator.id = "override"
           \/ decorator.kind = "Attribute" /\ decorator.attr = "override"

\* _Visitor._check_function: the diagnostics it appends
_check_function(node, path, class_depth, opts) ==
    LET is_method == class_depth > 0
        positional_args == node.args.args
        self_cls_offset ==
            IF is_method /\ positional_args # << >>
                /\ positional_args[1] \in {"self", "cls"}
            THEN 1 ELSE 0
        effective_count == Len(positional_args) - self_cls_offset
    IN IF opts.exempt_dunder /\ _is_dunder(node.name) THEN << >>
       ELSE IF opts.exempt_private /\ _is_private(node.name) THEN << >>
       ELSE IF opts.exempt_overrides /\ _has_override_decorator(node) THEN << >>
       ELSE IF node.args.kwonlyargs # << >> \/ node.args.vararg THEN << >>
       ELSE IF effective_count < opts.min_params THEN << >>
       ELSE << RuleDiagnostic("KW001", path,
                              IF is_method THEN "Method" ELSE "Function") >>

\* kw001._Visitor.visit: the diagnostics appended under node and
\* _class_depth after the visit
RECURSIVE kw001_visit(_, _, _, _)
kw001_visit(node, path, class_depth, opts) ==
    LET kids == Children(node)
        RECURSIVE generic_visit(_, _)
        generic_visit(i, acc) ==
            IF i > Len(kids) THEN acc
            ELSE LET r == kw001_visit(kids[i], Append(path, i), acc.depth, opts)
                 IN generic_visit(i + 1, [diags |-> acc.diags \o r.diags,
                                          depth |-> r.depth])
    IN CASE node.kind = "ClassDef" ->
                LET r == generic_visit(1, [diags |-> << >>,
                                           depth |-> class_depth + 1])
                IN [diags |-> r.diags, depth |-> r.depth - 1]
         [] node.kind \in {"FunctionDef", "AsyncFunctionDef"} ->
                generic_visit(1, [diags |-> _check_function(node, path,
                                                            class_depth, opts),
                                  depth |-> class_depth])
         [] OTHER -> generic_visit(1, [diags |-> << >>, depth |-> class_depth])

_is_type_checking_guard(test) ==
    \/ test.kind = "Name" /\ test.id = "TYPE_CHECKING"
    \/ test.kind = "Attribute" /\ test.value = "Name" /\ test.attr = "TYPE_CHECKING"

\* handler.type is a list of at most one expression, empty for None
_catches_import_error(handler) ==
    LET Named(x) == x.kind = "Name" /\ x.id \in {"ImportError", "ModuleNotFoundError"}
    IN \/ handler.type = << >>
       \/ handler.type # << >> /\ Named(handler.type[1])
       \/ /\ handler.type # << >>
          /\ handler.type[1].kind = "Tuple"
          /\ \E i \in DOMAIN handler.type[1].elts : Named(handler.type[1].elts[i])

_should_flag(st) ==
    st.function_depth > 0 /\ ~st.in_type_checking /\ ~st.in_try_except_import

\* imp001._Visitor.visit: the diagnostics appended under node and the
\* counter and flags of the visitor after the visit
RECURSIVE imp001_visit(_, _, _)
imp001_visit(node, path, st) ==
    LET kids == Children(node)
        RECURSIVE visit_children(_, _, _)
        visit_children(i, last, acc) ==
            IF i > last THEN acc
            ELSE LET r == imp001_visit(kids[i], Append(path, i), acc.st)
                 IN visit_children(i + 1, last, [diags |-> acc.diags \o r.diags,
                                                 st |-> r.st])
        generic_visit(st0) == visit_children(1, Len(kids), [diags |-> << >>, st |-> st0])
    IN CASE node.kind \in {"FunctionDef", "AsyncFunctionDef"} ->
                LET r == generic_visit([st EXCEPT !.function_depth = @ + 1])
                IN [diags |-> r.diags,
                    st |-> [r.st EXCEPT !.function_depth = @ - 1]]
         [] node.kind = "If" /\ _is_type_checking_guard(node.test) ->
                LET prev == st.in_type_checking
                    b == visit_children(1, Len(node.body),
                             [diags |-> << >>,
                              st |-> [st EXCEPT !.in_type_checking = TRUE]])
                IN visit_children(Len(node.body) + 1, Len(kids),
                       [diags |-> b.diags,
                        st |-> [b.st EXCEPT !.in_type_checking = prev]])
         [] /\ node.kind = "Try"
            /\ \E i \in DOMAIN node.handlers : _catches_import_error(node.handlers[i]) ->
                LET prev == st.in_try_except_import
                    r == generic_visit([st EXCEPT !.in_try_except_import = TRUE])
                IN [diags |-> r.diags,
                    st |-> [r.st EXCEPT !.in_try_except_import = prev]]
         [] node.kind \in {"Import", "ImportFrom"} ->
                [diags |-> IF _should_flag(st)
                           THEN [i \in DOMAIN node.names |->
                                    RuleDiagnostic("IMP001", path, node.names[i])]
                           ELSE << >>,
                 st |-> st]
         [] OTHER -> generic_visit(st)

_is_exempt(name) == name = "_"

\* _SCOPE_TO_ANNOTATION[self._current_scope] in self._opts.scope
_scope_enabled(scope_stack, opts) ==
    LET current == scope_stack[Len(scope_stack)]
        annotation_scope == CASE current = "module" -> "module"
                              [] current = "class" -> "class"
                              [] current = "function" -> "local"
    IN annotation_scope \in opts.scope

\* typ003._Visitor.visit: the diagnostics appended under node and
\* _scope_stack after the visit
RECURSIVE typ003_visit(_, _, _, _)
typ003_visit(node, path, scope_stack, opts) ==
    LET kids == Children(node)
        RECURSIVE visit_children(_, _)
        visit_children(i, acc) ==
            IF i > Len(kids) THEN acc
            ELSE LET r == typ003_visit(kids[i], Append(path, i), acc.stack, opts)
                 IN visit_children(i + 1, [diags |-> acc.diags \o r.diags,
                                           stack |-> r.stack])
        generic_visit(stack0) == visit_children(1, [diags |-> << >>, stack |-> stack0])
        Pushed(scope) ==
            LET r == generic_visit(Append(scope_stack, scope))
            IN [diags |-> r.diags,
                stack |-> SubSeq(r.stack, 1, Len(r.stack) - 1)]
        IsFlagged(target) == target.kind = "Name" /\ ~_is_exempt(target.id)
    IN CASE node.kind = "ClassDef" -> Pushed("class")
         [] node.kind \in {"FunctionDef", "AsyncFunctionDef"} -> Pushed("function")
         [] node.kind = "Assign" /\ _scope_enabled(scope_stack, opts) ->
                [diags |-> LET flagged == SelectSeq(node.targets, IsFlagged)
                           IN [i \in DOMAIN flagged |->
                                  RuleDiagnostic("TYP003", path, flagged[i].id)],
                 stack |-> scope_stack]
         [] OTHER -> generic_visit(scope_stack)

\* the statements without child statements: imports of one and of two
\* names, assignments of every kind of target, defs of every signature
Imports ==
    { [Node("Import") EXCEPT !.names = << "os" >>],
      [Node("ImportFrom") EXCEPT !.names = << "a.b", "a.c" >>] }

Assignments ==
    { [Node("Assign") EXCEPT !.targets = t] :
        t \in { << Name("a") >>, << Name("_") >>, << Name("a"), Name("b") >>,
                << Name("a"), Attribute("Name", "y") >>,
                << Tuple(<< Name("a"), Name("b") >>) >>,
                << Attribute("Name", "y") >>,
                << Expr("Subscript", "", "", "Name", << >>) >> } }
        \cup { Node("AugAssign"), Node("AnnAssign") }

Signatures ==
    { NoArguments,
      Arguments(<< >>, << "a" >>, FALSE, << >>),
      Arguments(<< >>, << "a", "b" >>, FALSE, << >>),
      Arguments(<< >>, << "self", "a" >>, FALSE, << >>),
      Arguments(<< >>, << "cls", "a", "b" >>, FALSE, << >>),
      Arguments(<< "a", "b" >>, << >>, FALSE, << >>),
      Arguments(<< "a" >>, << "b" >>, FALSE, << >>),
      Arguments(<< "self" >>, << "a", "b" >>, FALSE, << >>),
      Arguments(<< >>, << "a", "b" >>, TRUE, << >>),
      Arguments(<< >>, << "a", "b" >>, FALSE, << "k" >>) }

Defs ==
    { Def(<< "f" >>, << >>, a) : a \in Signatures }
        \cup { Def(n, << >>, Arguments(<< >>, << "a", "b" >>, FALSE, << >>)) :
                 n \in { << "_", "p" >>, << "_", "_", "x" >>,
                         << "_", "_", "i", "n", "i", "t", "_", "_" >> } }
        \cup { Def(<< "f" >>, << d >>, Arguments(<< >>, << "a", "b" >>, FALSE, << >>)) :
                 d \in { Name("override"), Attribute("Name", "override"),
                         Name("staticmethod") } }

ExceptHandler(type, body) == [type |-> type, body |-> body]

\* the compound statements around a body: class, def, if (guard or not,
\* body or else), try (the body or a handler, a handler that catches the
\* import error or not), try with except*
CompoundKinds ==
    { "class", "def", "async def", "if TYPE_CHECKING", "else of if TYPE_CHECKING",
      "if a.b.TYPE_CHECKING", "try except ImportError", "except (OSError, ModuleNotFoundError)",
      "try except x.ImportError", "try except", "try except* ImportError" }

Compound(kind, body) ==
    CASE kind = "class" -> [Node("ClassDef") EXCEPT !.name = << "C" >>, !.body = body]
      [] kind = "def" -> [Node("FunctionDef") EXCEPT !.name = << "g" >>, !.body = body]
      [] kind = "async def" ->
            [Node("AsyncFunctionDef") EXCEPT !.name = << "g" >>, !.body = body]
      [] kind = "if TYPE_CHECKING" ->
            [Node("If") EXCEPT !.test = Name("TYPE_CHECKING"), !.body = body]
      [] kind = "else of if TYPE_CHECKING" ->
            [Node("If") EXCEPT !.test = Attribute("Name", "TYPE_CHECKING"),
                               !.body = << Pass >>, !.orelse = body]
      [] kind = "if a.b.TYPE_CHECKING" ->
            [Node("If") EXCEPT !.test = Attribute("Attribute", "TYPE_CHECKING"),
                               !.body = body]
      [] kind = "try except ImportError" ->
            [Node("Try") EXCEPT !.body = body,
                 !.handlers = << ExceptHandler(<< Name("ImportError") >>, << Pass >>) >>]
      [] kind = "except (OSError, ModuleNotFoundError)" ->
            [Node("Try") EXCEPT !.body = << Pass >>,
                 !.handlers = << ExceptHandler(<< Name("ValueError") >>, << Pass >>),
                                 ExceptHandler(<< Tuple(<< Name("OSError"),
                                     Name("ModuleNotFoundError") >>) >>, body) >>]
      [] kind = "try except x.ImportError" ->
            [Node("Try") EXCEPT !.body = body,
                 !.handlers = << ExceptHandler(<< Attribute("Name", "ImportError") >>,
                                               << Pass >>) >>]
      [] kind = "try except" ->
            [Node("Try") EXCEPT !.body = body,
                 !.handlers = << ExceptHandler(<< >>, << Pass >>) >>]
      [] kind = "try except* ImportError" ->
            [Node("TryStar") EXCEPT !.body = body,
                 !.handlers = << ExceptHandler(<< Name("ImportError") >>, << Pass >>) >>]

\* a body: one statement, alone or followed by an import
Bodies(statements) ==
    { << x >> \o rest : x \in statements,
                        rest \in { << >>, << [Node("Import") EXCEPT !.names = << "os" >>] >> } }

\* the statements with depth compound statements around a leaf
RECURSIVE Statements(_)
Statements(depth) ==
    IF depth = 0 THEN Imports \cup Assignments \cup Defs
    ELSE { Compound(k, b) : k \in CompoundKinds, b \in Bodies(Statements(depth - 1)) }

\* ast.Module
Modules(depth) == { [Node("Module") EXCEPT !.body = b] : b \in Bodies(Statements(depth)) }

KW001Options(n, exempt) ==
    [min_params |-> n, exempt_dunder |-> exempt, exempt_private |-> exempt,
     exempt_overrides |-> exempt]

\* PyGuardConfig.rules: the options of KW001 and of TYP003
RuleConfigs ==
    { [kw001 |-> KW001Options(min_params, TRUE), typ003 |-> [scope |-> { "module" }]],
      [kw001 |-> KW001Options(min_params, FALSE),
       typ003 |-> [scope |-> { "module", "class", "local" }]],
      [kw001 |-> KW001Options(min_params + 1, TRUE),
       typ003 |-> [scope |-> { "class", "local" }]] }

InitRules ==
    /\ IgnoresIdle /\ LintIdle /\ FixIdle /\ CollIdle /\ CliIdle /\ ScanIdle
    /\ ParserIdle
    /\ \E depth \in 0 .. MaxNesting : module_tree \in Modules(depth)
    /\ rule_config \in RuleConfigs
    /\ rule_code = "none"
    /\ rule_diags = << >>
    /\ rule_pc = "ready"

\* Rule.check of the rule of the code, on a tree that parsed
Checked(code, diags) ==
    /\ rule_pc = "ready"
    /\ rule_code' = code
    /\ rule_diags' = diags
    /\ rule_pc' = "done"
    /\ UNCHANGED << module_tree, rule_config >>
    /\ UNCHANGED << ignore_vars, lint_vars, fix_vars, coll_vars, cli_vars,
                    scan_vars, parser_vars >>

CheckKW001 ==
    Checked("KW001", kw001_visit(module_tree, << >>, 0, rule_config.kw001).diags)

CheckIMP001 ==
    Checked("IMP001",
            imp001_visit(module_tree, << >>,
                         [function_depth |-> 0, in_type_checking |-> FALSE,
                          in_try_except_import |-> FALSE]).diags)

CheckTYP003 ==
    Checked("TYP003",
            typ003_visit(module_tree, << >>, << "module" >>, rule_config.typ003).diags)

NextRules == CheckKW001 \/ CheckIMP001 \/ CheckTYP003

SpecRules == InitRules /\ [][NextRules]_vars

(***************************************************************************)
(* The suppression engine: what the claims speak of, read off the source   *)
(* text and the arguments of the call.                                     *)
(***************************************************************************)
Count(list, x) == Cardinality({ i \in DOMAIN list : list[i] = x })

\* some copy of the input diagnostic d is missing from the output
Dropped(d) == Count(result, d) < Count(diagnostics, d)

InputDiagnostics == { diagnostics[i] : i \in DOMAIN diagnostics }

SourceLineNumbers == DOMAIN parse_result.source_lines
PragmaAt(l) == parse_result.source_lines[l]
HasPragma(l) == PragmaAt(l).form # "none"
IsFilePragma(l) == PragmaAt(l).form = "ignore-file"
IsInlinePragma(l) == PragmaAt(l).form = "ignore" /\ PragmaAt(l).code
IsBlockPragma(l) == PragmaAt(l).form = "ignore" /\ ~PragmaAt(l).code
\* the codes the pragma of line l lists, upper-cased
ListedAt(l) == _parse_codes(PragmaAt(l).codes)
LacksReason(l) == _clean_reason(PragmaAt(l).reason) = None

FileListed(code) ==
    \E l \in SourceLineNumbers : IsFilePragma(l) /\ code \in ListedAt(l)
InlineListed(line, code) ==
    line \in SourceLineNumbers /\ IsInlinePragma(line) /\ code \in ListedAt(line)
\* the ranges the engine resolved for the block pragmas of the file
ResolvedRanges ==
    _resolve_block_ranges(parse_ignore_directives(parse_result.source_lines),
                          parse_result.tree)
BlockListed(line, code) ==
    LET ranges == ResolvedRanges
    IN  \E i \in DOMAIN ranges :
            /\ ranges[i].start <= line
            /\ line <= ranges[i].end
            /\ code \in ranges[i].codes

GovernanceCodes == {IGN001_CODE, IGN002_CODE, IGN003_CODE}

\* C1: whatever pragmas the file holds, every input diagnostic whose code is
\* in the disallow set is in the output of apply_ignores, as often as in the
\* input.
C1_DisallowedNeverDropped ==
    pc = "done" =>
        \A d \in InputDiagnostics :
            d.code \in governance.disallow => ~Dropped(d)

\* a diagnostic of a disallowed code that a file-level pragma lists, kept
C1_Witness ==
    /\ pc = "done"
    /\ \E d \in InputDiagnostics :
          /\ d.code \in governance.disallow
          /\ FileListed(d.code)
          /\ Count(result, d) = Count(diagnostics, d)

\* C2: a diagnostic missing from the output has its code listed by a
\* file-level pragma, by an inline pragma on its own line, or by a block
\* pragma whose resolved range contains its line.
C2_DroppedOnlyIfListed ==
    pc = "done" =>
        \A d \in InputDiagnostics :
            Dropped(d) =>
                \/ FileListed(d.code)
                \/ InlineListed(d.line, d.code)
                \/ BlockListed(d.line, d.code)

\* a diagnostic kept although an inline pragma of another line lists its code
C2_Witness ==
    /\ pc = "done"
    /\ \E d \in InputDiagnostics :
          /\ ~Dropped(d)
          /\ d.code \notin governance.disallow
          /\ \E l \in SourceLineNumbers :
                l # d.line /\ IsInlinePragma(l) /\ d.code \in ListedAt(l)

\* C4: every governance diagnostic has error severity, and every governance
\* diagnostic the engine produced for the file is in the output, whether or
\* not a pragma of the file lists IGN001, IGN002 or IGN003.
C4_GovernanceNeverSuppressed ==
    pc = "done" =>
        LET directives == parse_ignore_directives(parse_result.source_lines)
            produced == _check_governance(directives, governance, parse_result.file)
        IN /\ \A i \in DOMAIN result :
                 result[i].code \in GovernanceCodes => result[i].severity = ERROR
           /\ directives # << >> =>
                 \A i \in DOMAIN produced :
                     Count(result, produced[i]) = Count(produced, produced[i])

\* a governance diagnostic in the output whose code a pragma covering its
\* line lists
C4_Witness ==
    /\ pc = "done"
    /\ \E i \in DOMAIN result :
          /\ result[i].code \in GovernanceCodes
          /\ \/ FileListed(result[i].code)
             \/ InlineListed(result[i].line, result[i].code)

\* C7: a diagnostic whose code is not disallowed is dropped whenever a
\* file-level pragma anywhere in the file, an inline pragma on its line, or a
\* block pragma whose resolved range contains its line lists its code; an
\* inline pragma on another line never has it dropped.
C7_ListedIsDropped ==
    pc = "done" =>
        \A d \in InputDiagnostics :
            d.code \notin governance.disallow =>
                /\ ( \/ FileListed(d.code)
                     \/ InlineListed(d.line, d.code)
                     \/ BlockListed(d.line, d.code) ) => Count(result, d) = 0
                /\ ( /\ ~FileListed(d.code)
                     /\ ~BlockListed(d.line, d.code)
                     /\ ~InlineListed(d.line, d.code) ) => ~Dropped(d)

\* a diagnostic dropped by a file-level pragma that stands below its line
C7_Witness ==
    /\ pc = "done"
    /\ \E d \in InputDiagnostics :
          /\ Dropped(d)
          /\ ~InlineListed(d.line, d.code)
          /\ ~BlockListed(d.line, d.code)
          /\ \E l \in SourceLineNumbers :
                l > d.line /\ IsFilePragma(l) /\ d.code \in ListedAt(l)

\* the statement that follows the pragma of line p: the first one, in source
\* order, among those whose first line is p + 1 (0 when there is none)
StartsAfter(p) ==
    { i \in DOMAIN parse_result.tree : EffectiveStart(parse_result.tree[i]) = p + 1 }
NextStatement(p) ==
    IF StartsAfter(p) = {} THEN 0 ELSE Min(StartsAfter(p))
\* line lies in [p + 1, end line of the statement that follows p]
InNextStatementRange(p, line) ==
    /\ NextStatement(p) # 0
    /\ p + 1 <= line
    /\ line <= parse_result.tree[NextStatement(p)].end_lineno

\* C8: a block pragma on line p suppresses exactly the lines from p + 1 to
\* the end line of the statement that follows it: a diagnostic of a listed
\* (and not disallowed) code in that range is dropped, and one outside the
\* range of every block pragma is not dropped on account of a block pragma.
C8_BlockRangeIsNextStatement ==
    pc = "done" =>
        \A d \in InputDiagnostics :
            d.code \notin governance.disallow =>
                /\ ( \E p \in SourceLineNumbers :
                        /\ IsBlockPragma(p)
                        /\ d.code \in ListedAt(p)
                        /\ InNextStatementRange(p, d.line) ) => Dropped(d)
                /\ ( /\ ~FileListed(d.code)
                     /\ ~InlineListed(d.line, d.code)
                     /\ \A p \in SourceLineNumbers :
                           ~( /\ IsBlockPragma(p)
                              /\ d.code \in ListedAt(p)
                              /\ InNextStatementRange(p, d.line) ) ) => ~Dropped(d)

\* C9: with require_reason the output holds exactly one IGN001 at the line
\* of every pragma without a reason and none anywhere else, without it the
\* output holds no IGN001; a pragma without a reason suppresses all the same.
C9_OneIGN001PerReasonlessPragma ==
    pc = "done" =>
        /\ \A l \in SourceLineNumbers :
              Count(result, Diagnostic(parse_result.file, l, 1, IGN001_CODE,
                                       IGN001Message, ERROR))
                = IF governance.require_reason /\ HasPragma(l) /\ LacksReason(l)
                  THEN 1 ELSE 0
        /\ \A i \in DOMAIN result :
              result[i].code = IGN001_CODE =>
                  result[i] = Diagnostic(parse_result.file, result[i].line, 1,
                                         IGN001_CODE, IGN001Message, ERROR)
        /\ \A d \in InputDiagnostics :
              ( /\ d.code \notin governance.disallow
                /\ \E l \in SourceLineNumbers :
                      /\ LacksReason(l)
                      /\ d.code \in ListedAt(l)
                      /\ \/ IsFilePragma(l)
                         \/ IsInlinePragma(l) /\ l = d.line ) => Dropped(d)

\* with require_reason, a file-level pragma without a reason: its IGN001 is
\* in the output and a diagnostic it lists is dropped
C9_Witness ==
    /\ pc = "done"
    /\ governance.require_reason
    /\ \E l \in SourceLineNumbers :
          /\ IsFilePragma(l)
          /\ LacksReason(l)
          /\ Count(result, Diagnostic(parse_result.file, l, 1, IGN001_CODE,
                                      IGN001Message, ERROR)) = 1
          /\ \E d \in InputDiagnostics : d.code \in ListedAt(l) /\ Dropped(d)

\* C10: the output holds exactly one IGN002, at the pragma's line, for every
\* pair of a pragma and a disallowed code it lists, and no other IGN002,
\* whatever diagnostics are passed in.
C10_OneIGN002PerPragmaAndCode ==
    pc = "done" =>
        /\ \A l \in SourceLineNumbers :
              \A c \in DiagCodes :
                 Count(result, Diagnostic(parse_result.file, l, 1, IGN002_CODE,
                                          IGN002Message(c), ERROR))
                   = IF HasPragma(l) /\ c \in ListedAt(l) /\ c \in governance.disallow
                     THEN 1 ELSE 0
        /\ \A i \in DOMAIN result :
              result[i].code = IGN002_CODE =>
                  \E c \in DiagCodes :
                      result[i] = Diagnostic(parse_result.file, result[i].line, 1,
                                             IGN002_CODE, IGN002Message(c), ERROR)

\* a pragma that lists two disallowed codes, and no diagnostic of either
\* code passed in: two IGN002 at its line
C10_Witness ==
    /\ pc = "done"
    /\ \E l \in SourceLineNumbers :
          /\ HasPragma(l)
          /\ {"TYP001", "TYP003"} \subseteq (ListedAt(l) \cap governance.disallow)
          /\ Cardinality({ i \in DOMAIN result :
                             result[i].code = IGN002_CODE /\ result[i].line = l }) = 2
    /\ diagnostics = << >>

\* the pragmas of the file, of every kind
PragmaCount == Cardinality({ l \in SourceLineNumbers : HasPragma(l) })

IGN003Diagnostics == { i \in DOMAIN result : result[i].code = IGN003_CODE }

\* C11: the output holds exactly one IGN003, at line 1 and naming the count
\* and the limit, when max_per_file is set and the file holds more pragmas
\* (of any kind) than the limit, a limit of 0 included; it holds none when
\* the count is within the limit or no limit is set.  This is so whatever
\* diagnostics are passed in.
C11_OneIGN003IffCountExceeds ==
    pc = "done" =>
        IF governance.max_per_file # NoInt
           /\ PragmaCount > governance.max_per_file[1]
        THEN /\ Cardinality(IGN003Diagnostics) = 1
             /\ \A i \in IGN003Diagnostics :
                   result[i] = Diagnostic(parse_result.file, 1, 1, IGN003_CODE,
                                          IGN003Message(PragmaCount,
                                                        governance.max_per_file[1]),
                                          ERROR)
        ELSE IGN003Diagnostics = {}

\* one pragma under a limit of 0 is reported, with a diagnostic passed in
C11_Witness ==
    /\ pc = "done"
    /\ governance.max_per_file = << 0 >>
    /\ PragmaCount = 1
    /\ diagnostics # << >>
    /\ Cardinality(IGN003Diagnostics) = 1

(***************************************************************************)
(* The lint run: what the claims speak of.                                 *)
(***************************************************************************)
\* the diagnostics of the collection that belong to a file, in order
OfFile(coll, file) ==
    LET Belongs(d) == d.file = file IN SelectSeq(coll, Belongs)

\* the files the loop has gone past
Processed == 1..(file_idx - 1)

\* the file cannot be read or parsed
ParseFails(content) == content.kind # "ok"

\* C5: the exit code lint_paths returns is 1 when the collection holds a
\* diagnostic of error severity and 0 when it holds none; warnings alone give
\* 0.  Before lint_paths returns there is no exit code.
C5_ExitCodeIffError ==
    /\ lint_pc = "done" =>
          exit_code = IF \E i \in DOMAIN collection : collection[i].severity = ERROR
                      THEN << 1 >> ELSE << 0 >>
    /\ lint_pc # "done" => exit_code = NoInt

\* a finished run whose collection holds warnings only: exit code 0
C5_Witness ==
    /\ lint_pc = "done"
    /\ collection # << >>
    /\ \A i \in DOMAIN collection : collection[i].severity = WARN
    /\ exit_code = << 0 >>

\* C6: a file that does not parse contributes exactly one diagnostic, SYN001
\* at error severity; no rule is run on it and it is not filtered; the run is
\* never left by an exception and goes on to the files after it; the
\* diagnostics of a file that parses are those of that file alone.
C6_SyntaxErrorIsOneDiagnostic ==
    /\ lint_pc # "raised"
    /\ \A i \in Processed :
          ParseFails(files[i]) =>
              /\ Len(OfFile(collection, FileNames[i])) = 1
              /\ OfFile(collection, FileNames[i])[1].code = SYNTAX_ERROR_CODE
              /\ OfFile(collection, FileNames[i])[1].severity = ERROR
              /\ \A k \in DOMAIN rule_checks : rule_checks[k][1] # FileNames[i]
              /\ \A k \in DOMAIN filtered : filtered[k] # FileNames[i]
    /\ \A i \in Processed :
          ~ParseFails(files[i]) =>
              LET pr == parse_file(FileNames[i], files[i])
              IN OfFile(collection, FileNames[i])
                   = apply_ignores(FileDiagnostics(pr, config), pr, config.ignores)
    /\ lint_pc = "done" => file_idx = Len(files) + 1

\* the rule codes of the catalog
Catalog == DOMAIN DEFAULT_SEVERITIES

\* C15: for every rule code of the catalog and every configuration, the
\* rules get_enabled_rules returned, which lint_paths ran on every file that
\* parsed, hold a rule of that code when the configured severity of the code
\* is not off, and only then.
C15_EnabledIffNotOff ==
    \A i \in DOMAIN filtered :
        \A code \in Catalog :
            (\E j \in DOMAIN rule_checks : rule_checks[j] = << filtered[i], code >>)
                <=> get_severity(config, code) # OFF

(***************************************************************************)
(* The collection: what the claims speak of.                               *)
(***************************************************************************)
\* d comes before e, or shares its place, by file path as a string, then
\* line, then column
NotAfter(d, e) ==
    \/ StrRank(d.file) < StrRank(e.file)
    \/ d.file = e.file /\ d.line < e.line
    \/ d.file = e.file /\ d.line = e.line /\ d.column <= e.column

SameKey(d, e) == d.file = e.file /\ d.line = e.line /\ d.column = e.column

\* C16: after any sequence of add and add_all calls, sorted returns a list
\* that is not the list of the collection (emptying it leaves the collection
\* as it was), holds every added diagnostic as often as it was added,
\* whatever its severity, is in non-decreasing order of (str(file), line,
\* column), and keeps diagnostics of equal key in the order they were added.
C16_SortedIsStablePermutation ==
    /\ coll_pc = "sorted" =>
          LET out == heap[returned]
          IN /\ returned # 1
             /\ \A d \in AddedDiagnostics : Count(out, d) = Count(added, d)
             /\ Len(out) = Len(added)
             /\ \A i \in 1..(Len(out) - 1) : NotAfter(out[i], out[i + 1])
             /\ \A d \in AddedDiagnostics :
                   LET Same(e) == SameKey(d, e)
                   IN SelectSeq(out, Same) = SelectSeq(added, Same)
    /\ coll_pc \in {"sorted", "cleared"} => heap[1] = added

\* three diagnostics added out of order, the first and the last with the
\* same key, a warning and an error: the second comes first in the list
\* returned and the other two keep their order
C16_Witness ==
    /\ coll_pc = "sorted"
    /\ Len(added) = 3
    /\ SameKey(added[1], added[3])
    /\ added[1].severity = WARN
    /\ added[3].severity = ERROR
    /\ ~NotAfter(added[1], added[2])
    /\ heap[returned] = << added[2], added[1], added[3] >>

(***************************************************************************)
(* The fix command: what the claims speak of.                              *)
(***************************************************************************)
\* the file would change: the fixer chain returns another text for it
WouldChange(p) == fix_all(original[p]) # original[p]

\* the files with pending changes, in the order of their paths
Pending ==
    LET IsPending(p) == p \in DOMAIN original /\ WouldChange(p)
    IN SelectSeq(<< "a.py", "b.py" >>, IsPending)

\* C17: fix --diff and fix --check, each alone, leave every file with the
\* text it had before the command, and fix --check exits with 1 when at
\* least one file would change and with 0 otherwise.
C17_DiffAndCheckWriteNothing ==
    cli_pc = "done" =>
        /\ argv \in { {"--diff"}, {"--check"} } => disk = original
        /\ argv = {"--check"} =>
              cli_exit = IF \E p \in DOMAIN original : WouldChange(p)
                         THEN << 1 >> ELSE << 0 >>

\* fix --check over a file that would change and one that would not
C17_Witness ==
    /\ cli_pc = "done"
    /\ argv = {"--check"}
    /\ DOMAIN original = Paths
    /\ WouldChange("a.py")
    /\ ~WouldChange("b.py")
    /\ cli_exit = << 1 >>
    /\ disk = original

\* C18: with more than one of --diff, --check and --tryout the command ends
\* as a usage error with exit code 2, writes no file and carries out no fix
\* mode.
C18_ModesMutuallyExclusive ==
    cli_pc = "done" /\ Cardinality(argv \cap ModeOptions) > 1 =>
        /\ cli_exit = << 2 >>
        /\ disk = original
        /\ cli_mode = "usage"

\* the answer given for the i-th pending file, when the prompts before it
\* were answered y or n
Asked(i) ==
    /\ i <= Len(answers)
    /\ \A m \in 1..(i - 1) : answers[m] \in {"y", "n"}

\* an earlier prompt was answered a (q), the prompts before it y or n
EarlierAnswer(i, answer) ==
    \E j \in 1..(i - 1) : Asked(j) /\ answers[j] = answer

\* C19: fix --tryout offers the files with pending changes one at a time: a
\* file answered y is written, a file answered n is left, a writes the file
\* and every later one without a prompt, q leaves the file and every later
\* one; the command ends in the tryout mode with exit code 0.
C19_TryoutWritesWhatWasAccepted ==
    cli_pc = "done" /\ argv = {"--tryout"} =>
        /\ cli_mode = "tryout"
        /\ cli_exit = << 0 >>
        /\ \A i \in DOMAIN Pending :
              LET p == Pending[i]
              IN /\ ( \/ Asked(i) /\ answers[i] \in {"y", "a"}
                      \/ EarlierAnswer(i, "a") )
                        => disk[p] = fix_all(original[p])
                 /\ ( \/ Asked(i) /\ answers[i] \in {"n", "q"}
                      \/ EarlierAnswer(i, "q") )
                        => disk[p] = original[p]
        /\ \A p \in DOMAIN original : ~WouldChange(p) => disk[p] = original[p]

(***************************************************************************)
(* The scanner: what the claims speak of.                                  *)
(***************************************************************************)
InputPaths == { scan_paths[i] : i \in DOMAIN scan_paths }

\* the root of a file: its parent when the file is named among the input
\* paths, else the deepest input directory that contains it
NearestRoot(f) ==
    IF f \in InputPaths THEN Parent(f)
    ELSE LET above == { d \in InputPaths : d \in TreeDirs /\ IsPrefix(d, f) }
         IN CHOOSE d \in above : \A e \in above : Len(e) <= Len(d)

RootRelative(f) == SubSeq(f, Len(NearestRoot(f)) + 1, Len(f))

MatchesExclude(f) ==
    \E i \in DOMAIN scan_config.exclude :
        _glob_match(RootRelative(f), scan_config.exclude[i])

\* C20: no file of the returned list has a root-relative path that matches
\* an exclude pattern, whether or not it matches an include pattern or is
\* named among the input paths.
C20_ExcludedNeverReturned ==
    scan_pc = "done" =>
        \A i \in DOMAIN scan_result : ~MatchesExclude(scan_result[i])

MatchesInclude(f) ==
    \E i \in DOMAIN scan_config.include :
        _glob_match(RootRelative(f), scan_config.include[i])

\* the Python files found under the input paths
Discovered == UNION { _collect_python_files(d) : d \in InputPaths }

\* C21: scan_files returns exactly the discovered files whose path relative
\* to the nearest input root (the parent, for a file named among the input
\* paths) matches an include pattern and no exclude pattern, whatever the
\* order of the input paths.
C21_MatchedRelativeToNearestRoot ==
    scan_pc = "done" =>
        \A f \in Discovered :
            (\E i \in DOMAIN scan_result : scan_result[i] = f)
                <=> (~MatchesExclude(f) /\ MatchesInclude(f))

(***************************************************************************)
(* The parser: what the claims speak of.                                   *)
(***************************************************************************)
\* "\n".join(lines)
RECURSIVE JoinLines(_)
JoinLines(lines) ==
    IF Len(lines) <= 1 THEN Flatten(lines)
    ELSE lines[1] \o << NL >> \o JoinLines(Tail(lines))

EndsWithNewline(s) == s # << >> /\ s[Len(s)] = NL

\* line i as the tokenizer and ast number it, without its line feed
NumberedLine(s, i) ==
    LET l == TokenLines(s)[i]
    IN IF l[Len(l)] = NL THEN SubSeq(l, 1, Len(l) - 1) ELSE l

\* C22: the line split of parse_file is lossless: source_lines joined with
\* line feeds (after one more empty string, when the source ends with a
\* line feed) is the source, and line i of the source is element i - 1 of
\* source_lines, form feeds included.
C22_LineSplitLossless ==
    parse_pc = "done" =>
        LET src == parse_out.source
            lines == parse_out.source_lines
        IN /\ JoinLines(IF EndsWithNewline(src)
                        THEN Append(lines, << >>) ELSE lines) = src
           /\ \A i \in DOMAIN TokenLines(src) :
                  i <= Len(lines) /\ lines[i] = NumberedLine(src, i)

\* C23: after a parse failure the reported column is at least 1 and the
\* reported line is one of the lines of source_lines, whatever lineno and
\* offset the exception of the parser carries.
C23_PositionClamped ==
    parse_pc = "done" /\ parse_out.syntax_error # << >> =>
        LET err == parse_out.syntax_error[1]
        IN /\ err.column >= 1
           /\ 1 <= err.line /\ err.line <= Len(parse_out.source_lines)

(***************************************************************************)
(* The lint run: the order of the files.                                   *)
(***************************************************************************)
\* what the turn of the loop for file i adds to the collection, whatever
\* was processed before it
AddedFor(i) ==
    LET pr == parse_file(FileNames[i], files[i])
    IN IF pr.syntax_error # << >> THEN << _syntax_error_to_diagnostic(pr) >>
       ELSE apply_ignores(FileDiagnostics(pr, config), pr, config.ignores)

\* the collection of a run that takes the files in the given order
CollectedIn(order) == Flatten([k \in DOMAIN order |-> AddedFor(order[k])])

IntroducedTexts(source) ==
    { strip(TokenLines(source)[l]) : l \in LocalImports(source) }
        \ { strip(TokenLines(source)[l]) : l \in ModuleImports(source) }

\* the lines that stay: all but the imports in a function
StayingLines(source) == Without(TokenLines(source), LocalImports(source))

\* the index of the last import that is a statement of the module itself,
\* 0 when there is none
LastTopLevelImport(lines) ==
    LET top == { i \in DOMAIN lines : CodeOf(lines[i]) \in ImportStatements }
    IN IF top = {} THEN 0 ELSE CHOOSE i \in top : \A j \in top : j <= i

\* C28: when the IMP001 fixer moves imports to module level, the new import
\* block starts at line 0 if an import of the standard library is among
\* them, and otherwise one line past the last import at the top level of
\* the file; an import nested in a block never decides the place.
C28_BlockAfterLastTopLevelImport ==
    /\ fix_pc = "done" /\ fixer = "IMP001"
    /\ output # input /\ IntroducedTexts(input) # {}
    => LET kept == StayingLines(input)
           pos == IF \E t \in IntroducedTexts(input) : _is_stdlib_import(t)
                  THEN 0 ELSE LastTopLevelImport(kept)
           above == Flatten(SubSeq(kept, 1, pos))
           below == Flatten(SubSeq(kept, pos + 1, Len(kept)))
       IN /\ Len(output) > Len(above) + Len(below)
          /\ SubSeq(output, 1, Len(above)) = above
          /\ SubSeq(output, Len(output) - Len(below) + 1, Len(output)) = below
          /\ \E t \in IntroducedTexts(input) :
                SubSeq(output, Len(above) + 1, Len(above) + Len(t)) = t

(***************************************************************************)
(* The KW001 fixer over several files: what the claim speaks of.           *)
(***************************************************************************)
\* the text of a source with the "*, " of every fixable signature put in
WithAllStars(source) ==
    Flatten(Insert(splitlines(source),
                   { _find_star_insertion(source, l) : l \in FixableSignatures(source) },
                   << "*", "," >>))

\* what the call returns for a file when it is the only file of the call
FixedAlone(file_path) ==
    fix_keyword_only([f \in { file_path } |-> input[file_path]])

\* C30: the KW001 fixer is all-or-nothing per file: a file whose text with
\* all its insertions applied does not re-parse is returned unchanged; and
\* each file of a fix_keyword_only call gets the result it gets when it is
\* fixed alone, whatever happens to the other files of the call.
C30_AllOrNothingPerFile ==
    fix_pc = "fixed" =>
        \A file_path \in DOMAIN input :
            ~FixedAlone(file_path).raised =>
                /\ ~output.raised
                /\ output.sources[file_path] = FixedAlone(file_path).sources[file_path]
                /\ ~Parses(WithAllStars(input[file_path])) =>
                       output.sources[file_path] = input[file_path]

(***************************************************************************)
(* The insertion loop: what the claim speaks of.                           *)
(***************************************************************************)
\* every text put in at once, at its position in the lines of the source
Simultaneously(source, insertions) ==
    LET lines == splitlines(source)
        TextAt(i, c) ==
            LET here == { t \in insertions : t.line_idx = i - 1 /\ t.col = c }
            IN IF here = { } THEN << >> ELSE (CHOOSE t \in here : TRUE).text
        NewLine(i) ==
            Flatten([k \in 1 .. Len(lines[i]) + 1 |->
                        TextAt(i, k - 1) \o
                        (IF k <= Len(lines[i]) THEN << lines[i][k] >> ELSE << >>)])
    IN Flatten([i \in DOMAIN lines |-> NewLine(i)])

\* s is t with some elements left out
RECURSIVE IsSubsequence(_, _)
IsSubsequence(s, t) ==
    IF s = << >> THEN TRUE
    ELSE IF t = << >> THEN FALSE
    ELSE IF Head(s) = Head(t) THEN IsSubsequence(Tail(s), Tail(t))
    ELSE IsSubsequence(s, Tail(t))

RECURSIVE TotalLength(_)
TotalLength(insertions) ==
    IF insertions = { } THEN 0
    ELSE LET t == CHOOSE x \in insertions : TRUE
         IN Len(t.text) + TotalLength(insertions \ { t })

RECURSIVE NodeAt(_, _)
NodeAt(node, path) ==
    IF path = << >> THEN node
    ELSE NodeAt(Children(node)[Head(path)], Tail(path))

RECURSIVE PathsOf(_, _)
PathsOf(node, path) ==
    { path } \cup UNION { PathsOf(Children(node)[i], Append(path, i)) :
                            i \in DOMAIN Children(node) }

\* the paths of the statements that textually enclose the one at path
Ancestors(path) == { SubSeq(path, 1, k) : k \in 0 .. Len(path) - 1 }

Enclosing(path, kinds) ==
    { q \in Ancestors(path) : NodeAt(module_tree, q).kind \in kinds }

\* how many diagnostics the rule emitted for the node at path
EmittedAt(path) ==
    Cardinality({ i \in DOMAIN rule_diags : rule_diags[i].path = path })

FunctionKinds == { "FunctionDef", "AsyncFunctionDef" }

ShouldBeKeywordOnly(path) ==
    LET node == NodeAt(module_tree, path)
        opts == rule_config.kw001
        is_method == Enclosing(path, { "ClassDef" }) # { }
        positional == node.args.posonlyargs \o node.args.args
        counted == IF is_method /\ positional # << >>
                       /\ positional[1] \in { "self", "cls" }
                   THEN Len(positional) - 1 ELSE Len(positional)
    IN /\ ~(opts.exempt_dunder /\ _is_dunder(node.name))
       /\ ~(opts.exempt_private /\ _is_private(node.name))
       /\ ~(opts.exempt_overrides /\ _has_override_decorator(node))
       /\ counted >= opts.min_params
       /\ node.args.kwonlyargs = << >>
       /\ ~node.args.vararg

\* C24: KW001 emits exactly one diagnostic for a function or method when no
\* enabled exemption applies (dunder name, private name, override
\* decorator), its positional parameters, self or cls of a method left
\* out, are at least min_params, and it has neither keyword-only
\* parameters nor *args; otherwise it emits none for that function.
C24_OneDiagnosticIffPositionalHeavy ==
    rule_pc = "done" /\ rule_code = "KW001" =>
        \A path \in PathsOf(module_tree, << >>) :
            EmittedAt(path) =
                IF /\ NodeAt(module_tree, path).kind \in FunctionKinds
                   /\ ShouldBeKeywordOnly(path)
                THEN 1 ELSE 0

ShouldBeAtModuleLevel(path) ==
    /\ Enclosing(path, FunctionKinds) # { }
    /\ ~\E q \in Enclosing(path, { "If" }) :
            /\ _is_type_checking_guard(NodeAt(module_tree, q).test)
            /\ path[Len(q) + 1] <= Len(NodeAt(module_tree, q).body)
    /\ ~\E q \in Enclosing(path, { "Try", "TryStar" }) :
            \E i \in DOMAIN NodeAt(module_tree, q).handlers :
                _catches_import_error(NodeAt(module_tree, q).handlers[i])

\* C25: IMP001 emits one diagnostic per imported name of an import
\* statement when the statement is inside a function, not inside the body
\* of a TYPE_CHECKING guard and not inside a try statement a handler of
\* which catches ImportError or ModuleNotFoundError or everything; it emits
\* none for any other import, so what follows such a block, or stands in
\* the else branch of a guard, is judged by what encloses the block.
C25_FlaggedIffInFunctionUnguarded ==
    rule_pc = "done" /\ rule_code = "IMP001" =>
        \A path \in PathsOf(module_tree, << >>) :
            LET node == NodeAt(module_tree, path)
            IN EmittedAt(path) =
                   IF /\ node.kind \in { "Import", "ImportFrom" }
                      /\ ShouldBeAtModuleLevel(path)
                   THEN Len(node.names) ELSE 0

\* the annotation scope of the innermost class or function around path
InnermostScope(path) ==
    LET scopes == Enclosing(path, FunctionKinds \cup { "ClassDef" })
    IN IF scopes = { } THEN "module"
       ELSE LET q == CHOOSE q \in scopes : \A r \in scopes : Len(r) <= Len(q)
            IN IF NodeAt(module_tree, q).kind = "ClassDef" THEN "class" ELSE "local"

\* C26: every diagnostic of TYP003 is for a plain assignment with a single
\* target that is a bare name other than _, in an innermost scope that is
\* in the configured scope set.
C26_OnlySingleBareNameInScope ==
    rule_pc = "done" /\ rule_code = "TYP003" =>
        \A i \in DOMAIN rule_diags :
            LET node == NodeAt(module_tree, rule_diags[i].path)
            IN /\ node.kind = "Assign"
               /\ Len(node.targets) = 1
               /\ node.targets[1].kind = "Name"
               /\ node.targets[1].id # "_"
               /\ InnermostScope(rule_diags[i].path) \in rule_config.typ003.scope

(***************************************************************************)
(* The fixers: what the claims speak of.                                   *)
(***************************************************************************)
\* C3: whichever of the five fixers is called and whatever the input, the
\* returned string parses or is the input itself.
C3_OutputParsesOrIsInput ==
    fix_pc = "done" /\ fixer \in Fixers /\ output # Raised =>
        Parses(output) \/ output = input

\* C12: each of the five fixers is idempotent: called on what it returned,
\* it returns its argument.
C12_FixerIdempotent ==
    fix_pc = "again" /\ fixer \in Fixers => output = input

\* C13: fix_all is idempotent: called on what it returned, it returns its
\* argument.
C13_FixAllIdempotent ==
    fix_pc = "again" /\ fixer = "fix_all" => output = input

\* C14: a call of a fixer or of fix_all on a source that does not parse
\* returns the source itself; no exception leaves the call.
C14_UnparseableReturnedUnchanged ==
    fix_pc \in {"done", "again"} /\ ~Parses(input) =>
        output # Raised /\ output = input

====
